---- MODULE Spec2Model ----
(***************************************************************************)
(* Model of the acceleration / intersection core of the ray tracer:        *)
(* src/src/vec3.rs, ray.rs, bounding.rs, hittable.rs, sphere.rs, quad.rs   *)
(* and bvh.rs.                                                             *)
(*                                                                         *)
(* Numbers.  An f64 is modelled as an exact rational [n, d] with d > 0,    *)
(* or one of the IEEE special values +inf = [1,0], -inf = [-1,0] and       *)
(* NaN = [0,0].  Arithmetic is exact (no rounding, except in the sums of   *)
(* Translate::hit, see there); the special values                          *)
(* follow IEEE-754 (1/0 = +inf, 0*inf = NaN, inf-inf = NaN, every          *)
(* comparison with NaN is false).  Lengths are counted in units of         *)
(* 5e-5 (half of the padding constant of bounding.rs), so that the         *)
(* constant 0.0001 is the integer 2.                                       *)
(***************************************************************************)
EXTENDS Integers, Sequences, FiniteSets, TLC

VARIABLES hittables, nodes, bounds, list, call

vars == <<hittables, nodes, bounds, list, call>>

(***************************************************************************)
(* Option<T>: None is the empty sequence, Some(x) the one-element one.     *)
(***************************************************************************)
None == <<>>

Some(x) == <<x>>

IsSome(o) == Len(o) = 1

Unwrap(o) == o[1]

(***************************************************************************)
(* f64                                                                     *)
(***************************************************************************)
Abs(k) == IF k < 0 THEN -k ELSE k

Sgn(k) == IF k < 0 THEN -1 ELSE IF k > 0 THEN 1 ELSE 0

RECURSIVE GCD(_, _)
GCD(a, b) == IF b = 0 THEN a ELSE GCD(b, a % b)

\* canonical form of the value n/d (d >= 0); d = 0 gives +inf, -inf or NaN
Norm(n, d) ==
    CHOOSE out \in
      {IF b = 0 THEN [n |-> Sgn(a), d |-> 0]
       ELSE CHOOSE q \in {[n |-> a \div g, d |-> b \div g] :
                             g \in {GCD(Abs(a), b)}} : TRUE :
          a \in {n}, b \in {d}} : TRUE

R(k) == [n |-> k, d |-> 1]

INFINITY == [n |-> 1, d |-> 0]

NEG_INFINITY == [n |-> -1, d |-> 0]

NaN == [n |-> 0, d |-> 0]

IsNaN(x) == x.d = 0 /\ x.n = 0

IsFinite(x) == x.d > 0

\* (An operand is bound as the element of a one-element set, so that it is
\* computed once however often the operation reads it.)
FNeg(x) == CHOOSE out \in {[n |-> -a.n, d |-> a.d] : a \in {x}} : TRUE

FAbs(x) == CHOOSE out \in {[n |-> Abs(a.n), d |-> a.d] : a \in {x}} : TRUE

FAdd(x, y) ==
    CHOOSE out \in
      {IF a.d = 0 /\ b.d = 0 THEN (IF a = b THEN a ELSE NaN)
       ELSE Norm(a.n * b.d + b.n * a.d, a.d * b.d) :
          a \in {x}, b \in {y}} : TRUE

FSub(x, y) == FAdd(x, FNeg(y))

FMul(x, y) ==
    CHOOSE out \in {Norm(a.n * b.n, a.d * b.d) : a \in {x}, b \in {y}} : TRUE

\* 1/x; the zero of the model is +0.0, so 1/0 = +inf
FRecip(x) ==
    CHOOSE out \in
      {IF a.d = 0 THEN (IF a.n = 0 THEN NaN ELSE R(0))
       ELSE IF a.n = 0 THEN INFINITY
       ELSE Norm(Sgn(a.n) * a.d, Abs(a.n)) : a \in {x}} : TRUE

FDiv(x, y) == FMul(x, FRecip(y))

FLt(x, y) ==
    \E a \in {x}, b \in {y} :
       /\ ~IsNaN(a)
       /\ ~IsNaN(b)
       /\ IF a.d = 0 /\ b.d = 0 THEN a.n < b.n ELSE a.n * b.d < b.n * a.d

FLe(x, y) ==
    \E a \in {x}, b \in {y} :
       /\ ~IsNaN(a)
       /\ ~IsNaN(b)
       /\ IF a.d = 0 /\ b.d = 0 THEN a.n <= b.n ELSE a.n * b.d <= b.n * a.d

FGt(x, y) == FLt(y, x)

FGe(x, y) == FLe(y, x)

(***************************************************************************)
(* Vec3 / Point3 (vec3.rs).  Both are triples of f64; the source indexes   *)
(* the axes 0, 1, 2.                                                       *)
(***************************************************************************)
Vec3_new(x, y, z) == <<x, y, z>>

Point3_new(x, y, z) == <<x, y, z>>

axis(p, i) == p[i + 1]

modify_axis(p, i, val) == [p EXCEPT ![i + 1] = val]

VAdd(u, v) == <<FAdd(u[1], v[1]), FAdd(u[2], v[2]), FAdd(u[3], v[3])>>

VSub(u, v) == <<FSub(u[1], v[1]), FSub(u[2], v[2]), FSub(u[3], v[3])>>

VNeg(u) == <<FNeg(u[1]), FNeg(u[2]), FNeg(u[3])>>

VScale(u, t) == <<FMul(u[1], t), FMul(u[2], t), FMul(u[3], t)>>

VDiv(u, t) == <<FDiv(u[1], t), FDiv(u[2], t), FDiv(u[3], t)>>

dot(u, v) == FAdd(FAdd(FMul(u[1], v[1]), FMul(u[2], v[2])), FMul(u[3], v[3]))

cross(u, v) ==
    <<FSub(FMul(u[2], v[3]), FMul(u[3], v[2])),
      FSub(FMul(u[3], v[1]), FMul(u[1], v[3])),
      FSub(FMul(u[1], v[2]), FMul(u[2], v[1]))>>

length_squared(u) == dot(u, u)

most_minimum(self, other) ==
    [i \in 1..3 |-> IF FLe(self[i], other[i]) THEN self[i] ELSE other[i]]

most_maximum(self, other) ==
    [i \in 1..3 |-> IF FGe(self[i], other[i]) THEN self[i] ELSE other[i]]

\* a point with integer coordinates
IntPoint(x, y, z) == <<R(x), R(y), R(z)>>

(***************************************************************************)
(* Ray (ray.rs)                                                            *)
(***************************************************************************)
Ray_new(origin, direction, time) ==
    [origin |-> origin, direction |-> direction, time |-> time]

Ray_at(r, t) == VAdd(r.origin, VScale(r.direction, t))

(***************************************************************************)
(* BoundingBox (bounding.rs)                                               *)
(***************************************************************************)
PADDING == 2

\* the default (all-zero) box instead of the inverted infinite one
BoundingBox_empty_zero ==
    [lower |-> Point3_new(R(0), R(0), R(0)),
     upper |-> Point3_new(R(0), R(0), R(0))]

BoundingBox_empty ==
    [lower |-> Point3_new(INFINITY, INFINITY, INFINITY),
     upper |-> Point3_new(NEG_INFINITY, NEG_INFINITY, NEG_INFINITY)]

axis_length(self, ax) == FAbs(FSub(axis(self.upper, ax), axis(self.lower, ax)))

\* pads the upper corner only
pad_axis_upper_only(self, ax) ==
    IF FLt(axis_length(self, ax), R(PADDING))
    THEN [lower |-> self.lower,
          upper |-> modify_axis(self.upper, ax,
                        FAdd(axis(self.upper, ax), FDiv(R(PADDING), R(2))))]
    ELSE self

\* one iteration of the loop of pad_minimum
pad_axis(self, ax) ==
    IF FLt(axis_length(self, ax), R(PADDING))
    THEN [lower |-> modify_axis(self.lower, ax,
                        FSub(axis(self.lower, ax), FDiv(R(PADDING), R(2)))),
          upper |-> modify_axis(self.upper, ax,
                        FAdd(axis(self.upper, ax), FDiv(R(PADDING), R(2))))]
    ELSE self

pad_minimum(self) == pad_axis(pad_axis(pad_axis(self, 0), 1), 2)

BoundingBox_new(a, b) ==
    LET upper == [i \in 1..3 |-> IF FGt(a[i], b[i]) THEN a[i] ELSE b[i]]
        lower == [i \in 1..3 |-> IF FLt(a[i], b[i]) THEN a[i] ELSE b[i]]
    IN  pad_minimum([lower |-> lower, upper |-> upper])

\* takes the minimum for both corners
box_between_both_minimum(a, b) ==
    [lower |-> most_minimum(a.lower, b.lower),
     upper |-> most_minimum(a.upper, b.upper)]

box_between(a, b) ==
    [lower |-> most_minimum(a.lower, b.lower),
     upper |-> most_maximum(a.upper, b.upper)]

\* an axis on which the direction component is 0 is passed over
slab_axis_skips_zero(self, ray, t_min, t_max, s, ax) ==
    IF s.ret \/ axis(ray.direction, ax) = R(0) THEN s
    ELSE
    LET ax_min == axis(self.lower, ax)
        ax_max == axis(self.upper, ax)
        adinv  == FDiv(R(1), axis(ray.direction, ax))
        t0     == FMul(FSub(ax_min, axis(ray.origin, ax)), adinv)
        t1     == FMul(FSub(ax_max, axis(ray.origin, ax)), adinv)
        tmin1  == IF FLt(t0, t1)
                  THEN (IF FGt(t0, t_min) THEN t0 ELSE s.tmin_out)
                  ELSE (IF FGt(t1, t_min) THEN t1 ELSE s.tmin_out)
        tmax1  == IF FLt(t0, t1)
                  THEN (IF FLt(t1, t_max) THEN t1 ELSE s.tmax_out)
                  ELSE (IF FLt(t0, t_max) THEN t0 ELSE s.tmax_out)
    IN  [tmin_out |-> tmin1, tmax_out |-> tmax1, ret |-> FLe(tmax1, tmin1)]

\* the body of the per-axis loop of intersects; s holds tmin_out, tmax_out
\* and whether the function has returned None
slab_axis(self, ray, t_min, t_max, s, ax) ==
    IF s.ret THEN s
    ELSE
    LET ax_min == axis(self.lower, ax)
        ax_max == axis(self.upper, ax)
        adinv  == FDiv(R(1), axis(ray.direction, ax))
        t0     == FMul(FSub(ax_min, axis(ray.origin, ax)), adinv)
        t1     == FMul(FSub(ax_max, axis(ray.origin, ax)), adinv)
        tmin1  == IF FLt(t0, t1)
                  THEN (IF FGt(t0, t_min) THEN t0 ELSE s.tmin_out)
                  ELSE (IF FGt(t1, t_min) THEN t1 ELSE s.tmin_out)
        tmax1  == IF FLt(t0, t1)
                  THEN (IF FLt(t1, t_max) THEN t1 ELSE s.tmax_out)
                  ELSE (IF FLt(t0, t_max) THEN t0 ELSE s.tmax_out)
    IN  [tmin_out |-> tmin1, tmax_out |-> tmax1, ret |-> FLe(tmax1, tmin1)]

\* the loop body without the early return
slab_axis_no_return(self, ray, t_min, t_max, s, ax) ==
    [slab_axis(self, ray, t_min, t_max, [s EXCEPT !.ret = FALSE], ax)
        EXCEPT !.ret = FALSE]

\* tests for an empty interval once, after the loop
intersects_check_at_end(self, ray, t_min, t_max) ==
    LET s0 == [tmin_out |-> t_min, tmax_out |-> t_max, ret |-> FALSE]
        s1 == slab_axis_no_return(self, ray, t_min, t_max, s0, 0)
        s2 == slab_axis_no_return(self, ray, t_min, t_max, s1, 1)
        s3 == slab_axis_no_return(self, ray, t_min, t_max, s2, 2)
    IN  IF FLe(s3.tmax_out, s3.tmin_out) THEN None
        ELSE Some([tmin |-> s3.tmin_out, tmax |-> s3.tmax_out])

\* the loop body without the ordering of t0 and t1: t0 is always the entry
slab_axis_unordered(self, ray, t_min, t_max, s, ax) ==
    IF s.ret THEN s
    ELSE
    LET adinv  == FDiv(R(1), axis(ray.direction, ax))
        t0     == FMul(FSub(axis(self.lower, ax), axis(ray.origin, ax)), adinv)
        t1     == FMul(FSub(axis(self.upper, ax), axis(ray.origin, ax)), adinv)
        tmin1  == IF FGt(t0, t_min) THEN t0 ELSE s.tmin_out
        tmax1  == IF FLt(t1, t_max) THEN t1 ELSE s.tmax_out
    IN  [tmin_out |-> tmin1, tmax_out |-> tmax1, ret |-> FLe(tmax1, tmin1)]

intersects_unordered(self, ray, t_min, t_max) ==
    LET s0 == [tmin_out |-> t_min, tmax_out |-> t_max, ret |-> FALSE]
        s1 == slab_axis_unordered(self, ray, t_min, t_max, s0, 0)
        s2 == slab_axis_unordered(self, ray, t_min, t_max, s1, 1)
        s3 == slab_axis_unordered(self, ray, t_min, t_max, s2, 2)
    IN  IF s3.ret THEN None
        ELSE Some([tmin |-> s3.tmin_out, tmax |-> s3.tmax_out])

intersects(self, ray, t_min, t_max) ==
    LET s0 == [tmin_out |-> t_min, tmax_out |-> t_max, ret |-> FALSE]
        s1 == slab_axis(self, ray, t_min, t_max, s0, 0)
        s2 == slab_axis(self, ray, t_min, t_max, s1, 1)
        s3 == slab_axis(self, ray, t_min, t_max, s2, 2)
    IN  IF s3.ret THEN None
        ELSE Some([tmin |-> s3.tmin_out, tmax |-> s3.tmax_out])

\* BoundingBox + Vec3
BoxAddVec(self, rhs) ==
    [lower |-> VAdd(self.lower, rhs), upper |-> VAdd(self.upper, rhs)]

(***************************************************************************)
(* f64::sqrt, exact on the squares of fractions; the inputs of the         *)
(* specifications are those on which every square root taken is exact.     *)
(***************************************************************************)
ISqrt(k) == CHOOSE r \in 0..k : r * r <= k /\ (r + 1) * (r + 1) > k

HasExactSqrt(x) ==
    /\ x.d > 0
    /\ x.n >= 0
    /\ ISqrt(x.n) * ISqrt(x.n) = x.n
    /\ ISqrt(x.d) * ISqrt(x.d) = x.d

FSqrt(x) ==
    IF x.d = 0 THEN (IF x.n > 0 THEN INFINITY ELSE NaN)
    ELSE IF x.n < 0 THEN NaN
    ELSE Norm(ISqrt(x.n), ISqrt(x.d))

length(u) == FSqrt(length_squared(u))

unit_vector(v) == VDiv(v, length(v))

(***************************************************************************)
(* HitRecord (hittable.rs)                                                 *)
(***************************************************************************)
HitRecord_new(p, normal, t, material, u, v) ==
    [p |-> p, normal |-> normal, t |-> t, front_face |-> FALSE,
     material |-> material, u |-> u, v |-> v]

\* the outward normal is kept whichever way the ray runs
set_face_normal_keeps_outward(self, ray, out_normal) ==
    LET front == FLt(dot(ray.direction, out_normal), R(0))
    IN  [self EXCEPT !.front_face = front, !.normal = out_normal]

set_face_normal(self, ray, out_normal) ==
    LET front == FLt(dot(ray.direction, out_normal), R(0))
    IN  [self EXCEPT !.front_face = front,
                     !.normal = IF front THEN out_normal ELSE VNeg(out_normal)]

(***************************************************************************)
(* Sphere (sphere.rs)                                                      *)
(***************************************************************************)
Sphere_new(movement, radius, mat) ==
    LET rvec == Vec3_new(radius, radius, radius)
        box1 == BoundingBox_new(VSub(Ray_at(movement, R(0)), rvec),
                                VAdd(Ray_at(movement, R(0)), rvec))
        box2 == BoundingBox_new(VSub(Ray_at(movement, R(1)), rvec),
                                VAdd(Ray_at(movement, R(1)), rvec))
    IN  [kind |-> "Sphere", movement |-> movement, radius |-> radius,
         mat |-> mat, bounding |-> box_between(box1, box2)]

\* acos and atan2 are not evaluated: u and v are kept as terms over the
\* components of the unit normal they are computed from
get_sphere_uv(p) ==
    <<[atan2_plus_pi_over_2pi |-> <<FNeg(axis(p, 2)), axis(p, 0)>>],
      [acos_over_pi |-> FNeg(axis(p, 1))]>>

Sphere_discriminant(self, ray) ==
    LET current_position == Ray_at(self.movement, ray.time)
        oc == VSub(current_position, ray.origin)
        a  == length_squared(ray.direction)
        h  == dot(ray.direction, oc)
        c  == FSub(length_squared(oc), FMul(self.radius, self.radius))
    IN  FSub(FMul(h, h), FMul(a, c))

\* the record built once the root is chosen (sphere.rs:72-80)
Sphere_record(self, ray, root) ==
    LET current_position == Ray_at(self.movement, ray.time)
        p      == Ray_at(ray, root)
        normal == VDiv(VSub(p, current_position), self.radius)
        uv     == get_sphere_uv(normal)
    IN  set_face_normal(HitRecord_new(p, normal, root, self.mat, uv[1], uv[2]),
                        ray, normal)

\* gives up when the smaller root is out of range
Sphere_hit_smaller_root_only(self, ray, ray_tmin, ray_tmax) ==
    LET current_position == Ray_at(self.movement, ray.time)
        oc == VSub(current_position, ray.origin)
        a  == length_squared(ray.direction)
        h  == dot(ray.direction, oc)
        discriminant == Sphere_discriminant(self, ray)
        root1 == FDiv(FSub(h, FSqrt(discriminant)), a)
    IN  IF FLt(discriminant, R(0)) THEN None
        ELSE IF FLe(root1, ray_tmin) \/ FLe(ray_tmax, root1) THEN None
        ELSE Some(Sphere_record(self, ray, root1))

Sphere_hit(self, ray, ray_tmin, ray_tmax) ==
    LET current_position == Ray_at(self.movement, ray.time)
        oc == VSub(current_position, ray.origin)
        a  == length_squared(ray.direction)
        h  == dot(ray.direction, oc)
        discriminant == Sphere_discriminant(self, ray)
        sqrtd == FSqrt(discriminant)
        root1 == FDiv(FSub(h, sqrtd), a)
        root2 == FDiv(FAdd(h, sqrtd), a)
    IN  IF FLt(discriminant, R(0)) THEN None
        ELSE IF FLe(root1, ray_tmin) \/ FLe(ray_tmax, root1)
             THEN IF FLe(root2, ray_tmin) \/ FLe(ray_tmax, root2)
                  THEN None
                  ELSE Some(Sphere_record(self, ray, root2))
             ELSE Some(Sphere_record(self, ray, root1))

(***************************************************************************)
(* Quad (quad.rs)                                                          *)
(***************************************************************************)
\* 1e-8 in units of 5e-5
QUAD_PARALLEL_EPS == Norm(1, 5000)

Quad_new(q, u, v, mat) ==
    LET bound1 == BoundingBox_new(q, VAdd(VAdd(q, u), v))
        bound2 == BoundingBox_new(VAdd(q, u), VAdd(q, v))
        n      == cross(u, v)
        normal == unit_vector(n)
    IN  [kind |-> "Quad", q |-> q, u |-> u, v |-> v, mat |-> mat,
         bounds |-> box_between(bound1, bound2),
         normal |-> normal, d |-> dot(normal, q), w |-> VDiv(n, dot(n, n))]

\* closed at both ends
is_interior_closed(a, b) ==
    IF ~(FLe(R(0), a) /\ FLe(a, R(1))) \/ ~(FLe(R(0), b) /\ FLe(b, R(1)))
    THEN None
    ELSE Some(<<a, b>>)

\* Range<f64> 0.0..1.0 contains x iff 0 <= x < 1
is_interior(a, b) ==
    IF ~(FLe(R(0), a) /\ FLt(a, R(1))) \/ ~(FLe(R(0), b) /\ FLt(b, R(1)))
    THEN None
    ELSE Some(<<a, b>>)

\* alpha and beta of Quad::hit for a point of the plane of the quad
Quad_planar(self, intersection) ==
    LET planar_hit_vec == VSub(intersection, self.q)
    IN  <<dot(self.w, cross(planar_hit_vec, self.v)),
          dot(self.w, cross(self.u, planar_hit_vec))>>

\* divides whatever the denominator is
Quad_hit_no_parallel_test(self, r, ray_tmin, ray_tmax) ==
    LET denom == dot(self.normal, r.direction)
        t     == FDiv(FSub(self.d, dot(self.normal, r.origin)), denom)
        intersection   == Ray_at(r, t)
        planar_hit_vec == VSub(intersection, self.q)
        alpha == dot(self.w, cross(planar_hit_vec, self.v))
        beta  == dot(self.w, cross(self.u, planar_hit_vec))
        inside == is_interior(alpha, beta)
    IN  IF FGt(ray_tmin, t) \/ FGt(t, ray_tmax) THEN None
        ELSE IF IsSome(inside)
             THEN Some(set_face_normal(
                          HitRecord_new(intersection, self.normal, t, self.mat,
                                        Unwrap(inside)[1], Unwrap(inside)[2]),
                          r, self.normal))
             ELSE None

\* whether a call of Quad::hit gets as far as the division of quad.rs:78
Quad_hit_divides(self, r) ==
    ~FLt(FAbs(dot(self.normal, r.direction)), QUAD_PARALLEL_EPS)

Quad_hit(self, r, ray_tmin, ray_tmax) ==
    LET denom == dot(self.normal, r.direction)
        t     == FDiv(FSub(self.d, dot(self.normal, r.origin)), denom)
        intersection   == Ray_at(r, t)
        planar_hit_vec == VSub(intersection, self.q)
        alpha == dot(self.w, cross(planar_hit_vec, self.v))
        beta  == dot(self.w, cross(self.u, planar_hit_vec))
        inside == is_interior(alpha, beta)
    IN  IF FLt(FAbs(denom), QUAD_PARALLEL_EPS) THEN None
        ELSE IF FGt(ray_tmin, t) \/ FGt(t, ray_tmax) THEN None
        ELSE IF IsSome(inside)
             THEN Some(set_face_normal(
                          HitRecord_new(intersection, self.normal, t, self.mat,
                                        Unwrap(inside)[1], Unwrap(inside)[2]),
                          r, self.normal))
             ELSE None

(***************************************************************************)
(* trait Hittable (hittable.rs): dispatch on the kind of shape             *)
(***************************************************************************)
\* Hittable::hit is defined below, after the shapes that hold other shapes
RECURSIVE Hittable_hit(_, _, _, _)

Hittable_bounding_box(obj) ==
    CASE obj.kind = "Sphere" -> obj.bounding
      [] obj.kind = "Cube"   -> obj.sides.bounds
      [] OTHER               -> obj.bounds

(***************************************************************************)
(* HittableList (hittable.rs)                                              *)
(***************************************************************************)
HittableList_new ==
    [kind |-> "HittableList", hittables |-> <<>>, bounds |-> BoundingBox_empty]

\* the box of the list becomes the box of the shape added last
HittableList_add_last_box(self, object) ==
    CHOOSE out \in
      {[kind |-> "HittableList",
        hittables |-> Append(lst.hittables, obj),
        bounds |-> Hittable_bounding_box(obj)] :
          lst \in {self}, obj \in {object}} : TRUE

HittableList_add(self, object) ==
    CHOOSE out \in
      {[kind |-> "HittableList",
        hittables |-> Append(lst.hittables, obj),
        bounds |-> box_between(lst.bounds, Hittable_bounding_box(obj))] :
          lst \in {self}, obj \in {object}} : TRUE

\* the for_each of HittableList::hit from member i on.  (A value that is
\* used more than once is bound as the element of a one-element set, here
\* and below, so that it is computed once.)
RECURSIVE list_scan_no_shrink(_, _, _, _, _, _)
list_scan_no_shrink(hs, i, ray, t_min, closest_so_far, record) ==
    IF i > Len(hs) THEN record
    ELSE CHOOSE out \in
           {IF IsSome(last_record)
            THEN list_scan_no_shrink(hs, i + 1, ray, t_min, closest_so_far, last_record)
            ELSE list_scan_no_shrink(hs, i + 1, ray, t_min, closest_so_far, record) :
               last_record \in {Hittable_hit(hs[i], ray, t_min, closest_so_far)}} : TRUE

RECURSIVE list_scan(_, _, _, _, _, _)
list_scan(hs, i, ray, t_min, closest_so_far, record) ==
    IF i > Len(hs) THEN record
    ELSE CHOOSE out \in
           {IF IsSome(last_record)
            THEN list_scan(hs, i + 1, ray, t_min, Unwrap(last_record).t, last_record)
            ELSE list_scan(hs, i + 1, ray, t_min, closest_so_far, record) :
               last_record \in {Hittable_hit(hs[i], ray, t_min, closest_so_far)}} : TRUE

HittableList_hit(self, ray, t_min, t_max) ==
    list_scan(self.hittables, 1, ray, t_min, t_max, None)

(***************************************************************************)
(* Rounding.  The sums of Translate::hit add an offset to a point that may *)
(* be of a much smaller magnitude, and an f64 sum keeps 53 significant     *)
(* bits.  The model rounds these sums to MantissaBits significant bits,    *)
(* to nearest, ties to the even mantissa, as IEEE-754 does; the other      *)
(* arithmetic of the model is on values it is exact on.                    *)
(***************************************************************************)
MantissaBits == 4

RECURSIVE Pow2(_)
Pow2(k) == IF k = 0 THEN 1 ELSE 2 * Pow2(k - 1)

\* the exponent e with 2^(MantissaBits-1) <= |x| / 2^e < 2^MantissaBits
f64_exponent(x) ==
    CHOOSE e \in -10..10 :
        LET num == IF e < 0 THEN Abs(x.n) * Pow2(-e) ELSE Abs(x.n)
            den == IF e < 0 THEN x.d ELSE x.d * Pow2(e)
        IN  Pow2(MantissaBits - 1) * den <= num /\ num < Pow2(MantissaBits) * den

f64_round(x) ==
    IF x.d = 0 \/ x.n = 0 THEN x
    ELSE CHOOSE out \in
           {LET num == IF e < 0 THEN Abs(x.n) * Pow2(-e) ELSE Abs(x.n)
                den == IF e < 0 THEN x.d ELSE x.d * Pow2(e)
                q   == num \div den
                r   == num % den
                m   == IF 2 * r < den THEN q
                       ELSE IF 2 * r > den THEN q + 1
                       ELSE IF q % 2 = 0 THEN q ELSE q + 1
            IN  IF e < 0 THEN Norm(Sgn(x.n) * m, Pow2(-e))
                ELSE Norm(Sgn(x.n) * m * Pow2(e), 1) :
              e \in {f64_exponent(x)}} : TRUE

\* Point3 + Vec3 and Point3 - Vec3, each component rounded
VAddRounded(u, v) == [i \in 1..3 |-> f64_round(FAdd(u[i], v[i]))]

VSubRounded(u, v) == [i \in 1..3 |-> f64_round(FSub(u[i], v[i]))]

(***************************************************************************)
(* Translate (hittable.rs)                                                 *)
(***************************************************************************)
Translate_new(object, offset) ==
    CHOOSE out \in
      {[kind |-> "Translate", object |-> obj,
        bounds |-> BoxAddVec(Hittable_bounding_box(obj), offset),
        offset |-> offset] : obj \in {object}} : TRUE

Translate_hit(self, r, ray_tmin, ray_tmax) ==
    CHOOSE out \in
      {IF IsSome(hit)
       THEN Some([Unwrap(hit) EXCEPT !.p = VAddRounded(@, self.offset)])
       ELSE None :
         hit \in
           {Hittable_hit(self.object, offset_r, ray_tmin, ray_tmax) :
              offset_r \in {Ray_new(VSubRounded(r.origin, self.offset),
                                    r.direction, r.time)}}} : TRUE

(***************************************************************************)
(* RotateY (hittable.rs, bounding.rs)                                      *)
(***************************************************************************)
\* f64::cos and f64::sin of angle.to_radians(), at the multiples of 90
\* degrees.  At 0 the f64 values are these; at 90, 180 and 270 f64 gives a
\* value within 2e-16 of the 0 written here.
cos_degrees(angle) ==
    CASE angle = 0 -> R(1) [] angle = 90 -> R(0)
      [] angle = 180 -> R(-1) [] angle = 270 -> R(0)

sin_degrees(angle) ==
    CASE angle = 0 -> R(0) [] angle = 90 -> R(1)
      [] angle = 180 -> R(0) [] angle = 270 -> R(-1)

\* f64::min and f64::max: a NaN operand is ignored
f64_min(a, b) == IF IsNaN(a) THEN b ELSE IF IsNaN(b) THEN a ELSE IF FLe(a, b) THEN a ELSE b

f64_max(a, b) == IF IsNaN(a) THEN b ELSE IF IsNaN(b) THEN a ELSE IF FGe(a, b) THEN a ELSE b

\* the corner (i, j, k) of the box, turned
rotate_y_test(self, cos_theta, sin_theta, i, j, k) ==
    LET x == FAdd(FMul(self.upper[1], R(i)), FMul(self.lower[1], R(1 - i)))
        y == FAdd(FMul(self.upper[2], R(j)), FMul(self.lower[2], R(1 - j)))
        z == FAdd(FMul(self.upper[3], R(k)), FMul(self.lower[3], R(1 - k)))
        newx == FAdd(FMul(cos_theta, x), FMul(sin_theta, z))
        newz == FAdd(FMul(FNeg(sin_theta), x), FMul(cos_theta, z))
    IN  Vec3_new(newx, y, newz)

\* the three nested loops from corner number c (0..7) on
RECURSIVE rotate_y_loop(_, _, _, _, _, _)
rotate_y_loop(self, cos_theta, sin_theta, c, min, max) ==
    IF c > 7 THEN [lower |-> min, upper |-> max]
    ELSE CHOOSE out \in
           {rotate_y_loop(self, cos_theta, sin_theta, c + 1, min2, max2) :
              min2 \in {[a \in 1..3 |-> f64_min(min[a], test[a])] :
                           test \in {rotate_y_test(self, cos_theta, sin_theta,
                                                   c \div 4, (c \div 2) % 2, c % 2)}},
              max2 \in {[a \in 1..3 |-> f64_max(max[a], test[a])] :
                           test \in {rotate_y_test(self, cos_theta, sin_theta,
                                                   c \div 4, (c \div 2) % 2, c % 2)}}} : TRUE

rotate_y(self, cos_theta, sin_theta) ==
    rotate_y_loop(self, cos_theta, sin_theta, 0,
                  Point3_new(INFINITY, INFINITY, INFINITY),
                  Point3_new(NEG_INFINITY, NEG_INFINITY, NEG_INFINITY))

\* cosine and sine taken for each other
RotateY_new_sin_for_cos(object, angle) ==
    CHOOSE out \in
      {[kind |-> "RotateY", cos_theta |-> sin_degrees(angle),
        sin_theta |-> cos_degrees(angle), object |-> obj,
        bounds |-> rotate_y(bbox, sin_degrees(angle), cos_degrees(angle))] :
          obj \in {object}, bbox \in {Hittable_bounding_box(object)}} : TRUE

RotateY_new(object, angle) ==
    CHOOSE out \in
      {[kind |-> "RotateY", cos_theta |-> cos_degrees(angle),
        sin_theta |-> sin_degrees(angle), object |-> obj,
        bounds |-> rotate_y(bbox, cos_degrees(angle), sin_degrees(angle))] :
          obj \in {object}, bbox \in {Hittable_bounding_box(object)}} : TRUE

\* the ray as RotateY::hit hands it to the wrapped shape
RotateY_rotated_r(self, r) ==
    LET c == self.cos_theta
        s == self.sin_theta
        origin == Point3_new(FSub(FMul(c, r.origin[1]), FMul(s, r.origin[3])),
                             r.origin[2],
                             FAdd(FMul(s, r.origin[1]), FMul(c, r.origin[3])))
        direction == Vec3_new(FSub(FMul(c, r.direction[1]), FMul(s, r.direction[3])),
                              r.direction[2],
                              FAdd(FMul(s, r.direction[1]), FMul(c, r.direction[3])))
    IN  Ray_new(origin, direction, r.time)

\* the turn back that RotateY::hit applies to hit.p and to hit.normal
RotateY_back(self, w) ==
    Vec3_new(FAdd(FMul(self.cos_theta, w[1]), FMul(self.sin_theta, w[3])),
             w[2],
             FAdd(FMul(FNeg(self.sin_theta), w[1]), FMul(self.cos_theta, w[3])))

RotateY_hit(self, r, ray_tmin, ray_tmax) ==
    CHOOSE out \in
      {IF IsSome(hit)
       THEN Some([Unwrap(hit) EXCEPT !.p = RotateY_back(self, @),
                                     !.normal = RotateY_back(self, @)])
       ELSE None :
         hit \in
           {Hittable_hit(self.object, rotated_r, ray_tmin, ray_tmax) :
              rotated_r \in {RotateY_rotated_r(self, r)}}} : TRUE

(***************************************************************************)
(* Cube (quad.rs)                                                          *)
(***************************************************************************)
Cube_new(a, b, mat) ==
    LET min == most_minimum(a, b)
        max == most_maximum(a, b)
        dx == Vec3_new(FSub(max[1], min[1]), R(0), R(0))
        dy == Vec3_new(R(0), FSub(max[2], min[2]), R(0))
        dz == Vec3_new(R(0), R(0), FSub(max[3], min[3]))
        s1 == HittableList_add(HittableList_new,
                  Quad_new(Point3_new(min[1], min[2], max[3]), dx, dy, mat))
        s2 == HittableList_add(s1,
                  Quad_new(Point3_new(max[1], min[2], max[3]), VNeg(dz), dy, mat))
        s3 == HittableList_add(s2,
                  Quad_new(Point3_new(max[1], min[2], min[3]), VNeg(dx), dy, mat))
        s4 == HittableList_add(s3,
                  Quad_new(Point3_new(min[1], min[2], min[3]), dz, dy, mat))
        s5 == HittableList_add(s4,
                  Quad_new(Point3_new(min[1], max[2], max[3]), dx, VNeg(dz), mat))
        s6 == HittableList_add(s5,
                  Quad_new(Point3_new(min[1], min[2], min[3]), dx, dz, mat))
    IN  [kind |-> "Cube", sides |-> s6]

\* the sides are asked without an upper end of the range
Cube_hit_open_ended(self, r, ray_tmin, ray_tmax) ==
    HittableList_hit(self.sides, r, ray_tmin, INFINITY)

Cube_hit(self, r, ray_tmin, ray_tmax) ==
    HittableList_hit(self.sides, r, ray_tmin, ray_tmax)

(***************************************************************************)
(* BvhSlab and BvhTree (bvh.rs)                                            *)
(***************************************************************************)
Leaf(parent_index, shape_index) ==
    [slab |-> "Leaf", parent_index |-> parent_index, shape_index |-> shape_index]

Node(parent_index, bbox, left_index, right_index) ==
    [slab |-> "Node", parent_index |-> parent_index, bounds |-> bbox,
     left_index |-> left_index, right_index |-> right_index]

\* one step of the fold of Iterator::max_by: the element met so far is kept
\* only when the comparison says Greater
max_by_step(lengths, x, y) == IF FLt(lengths[y], lengths[x]) THEN x ELSE y

\* the fold keeps the element met so far unless the next one is Greater
longest_axis_keeps_earlier(self) ==
    LET lengths == [i \in 0..2 |-> axis_length(self, i)]
        keep(x, y) == IF FLt(lengths[x], lengths[y]) THEN y ELSE x
    IN  keep(keep(0, 1), 2)

longest_axis(self) ==
    LET lengths == [i \in 0..2 |-> axis_length(self, i)]
    IN  max_by_step(lengths, max_by_step(lengths, 0, 1), 2)

\* the fold leaves out the last shape of the slice
RECURSIVE boxes_merged_but_last(_, _, _)
boxes_merged_but_last(objs, i, bbox) ==
    IF i >= Len(objs) /\ i > 1 THEN bbox
    ELSE CHOOSE out \in
           {boxes_merged_but_last(objs, i + 1, merged) :
               merged \in {box_between(bbox, Hittable_bounding_box(objs[i]))}} : TRUE

\* the fold of box_between over the bounding boxes of a slice of shapes
RECURSIVE boxes_merged(_, _, _)
boxes_merged(objs, i, bbox) ==
    IF i > Len(objs) THEN bbox
    ELSE CHOOSE out \in
           {boxes_merged(objs, i + 1, merged) :
               merged \in {box_between(bbox, Hittable_bounding_box(objs[i]))}} : TRUE

\* Vec::insert(index, x), index counted from 0
vec_insert(v, index, x) ==
    SubSeq(v, 1, index) \o <<x>> \o SubSeq(v, index + 1, Len(v))

\* slice::sort_by is stable: x goes behind every element that is not greater
RECURSIVE sorted_insert(_, _, _)
sorted_insert(sorted, x, ax) ==
    IF sorted = <<>> THEN <<x>>
    ELSE LET last == sorted[Len(sorted)]
         IN  IF FLt(axis_length(Hittable_bounding_box(x), ax),
                    axis_length(Hittable_bounding_box(last), ax))
             THEN Append(sorted_insert(SubSeq(sorted, 1, Len(sorted) - 1), x, ax),
                         last)
             ELSE Append(sorted, x)

\* the list is left in the order of the adds
sort_by_axis_length_keeps_order(lst, n, ax) == SubSeq(lst, 1, n)

RECURSIVE sort_by_axis_length(_, _, _)
sort_by_axis_length(lst, n, ax) ==
    IF n = 0 THEN <<>>
    ELSE CHOOSE out \in
           {sorted_insert(sorted, lst[n], ax) :
               sorted \in {sort_by_axis_length(lst, n - 1, ax)}} : TRUE

\* the right child is placed after as many slots as the left half has shapes
RECURSIVE recurse_nodes_counts_shapes(_, _, _, _)
recurse_nodes_counts_shapes(objs_list, indicies, nds, index) ==
    LET len == Len(objs_list)
        mid == len \div 2
    IN  IF len = 1
        THEN vec_insert(nds, index, Leaf(index, indicies[1]))
        ELSE
        LET bbox == boxes_merged(objs_list, 1, BoundingBox_empty)
            left_objects   == SubSeq(objs_list, 1, mid)
            right_objects  == SubSeq(objs_list, mid + 1, len)
            left_indicies  == SubSeq(indicies, 1, mid)
            right_indicies == SubSeq(indicies, mid + 1, len)
            left_len == Len(left_indicies)
        IN  CHOOSE out \in
              {recurse_nodes_counts_shapes(right_objects, right_indicies, nds2, index + 1 + left_len) :
                 nds2 \in
                   {recurse_nodes_counts_shapes(left_objects, left_indicies, nds1, index + 1) :
                      nds1 \in {vec_insert(nds, index,
                                           Node(index, bbox, index + 1,
                                                index + 1 + left_len))}}} : TRUE

RECURSIVE recurse_nodes(_, _, _, _)
recurse_nodes(objs_list, indicies, nds, index) ==
    LET len == Len(objs_list)
        mid == len \div 2
    IN  IF len = 1
        THEN vec_insert(nds, index, Leaf(index, indicies[1]))
        ELSE
        LET bbox == boxes_merged(objs_list, 1, BoundingBox_empty)
            left_objects   == SubSeq(objs_list, 1, mid)
            right_objects  == SubSeq(objs_list, mid + 1, len)
            left_indicies  == SubSeq(indicies, 1, mid)
            right_indicies == SubSeq(indicies, mid + 1, len)
            left_len == Len(left_indicies) * 2 - 1
        IN  CHOOSE out \in
              {recurse_nodes(right_objects, right_indicies, nds2, index + 1 + left_len) :
                 nds2 \in
                   {recurse_nodes(left_objects, left_indicies, nds1, index + 1) :
                      nds1 \in {vec_insert(nds, index,
                                           Node(index, bbox, index + 1,
                                                index + 1 + left_len))}}} : TRUE

\* the result of a call: a value, or the panic that ended it
Returned(v) == [outcome |-> "returned", value |-> v]

Panicked(msg) == [outcome |-> "panic", message |-> msg]

\* build_nodes sorts the list in place and returns the node array; on an
\* empty list (list.len() * 2) - 1 underflows: a panic in a debug build, and
\* in a release build a reserve of usize::MAX slots, which panics as well
build_nodes(lst) ==
    IF Len(lst) = 0
    THEN Panicked("attempt to subtract with overflow / capacity overflow")
    ELSE
    LET bbox   == boxes_merged(lst, 1, BoundingBox_empty)
        ax     == longest_axis(bbox)
        sorted == sort_by_axis_length(lst, Len(lst), ax)
        indicies == [i \in 1..Len(lst) |-> i - 1]
    IN  Returned([list |-> sorted,
                  vec |-> recurse_nodes(sorted, indicies, <<>>, 0)])

\* the left child wins a tie
closer_hit_left_on_tie(left_hit, right_hit) ==
    IF IsSome(left_hit) /\ IsSome(right_hit)
    THEN (IF FLe(Unwrap(left_hit).t, Unwrap(right_hit).t)
          THEN left_hit ELSE right_hit)
    ELSE IF IsSome(left_hit) THEN left_hit
    ELSE right_hit

\* the match on (left_hit, right_hit) of traverse
closer_hit(left_hit, right_hit) ==
    IF IsSome(left_hit) /\ IsSome(right_hit)
    THEN (IF FLt(Unwrap(left_hit).t, Unwrap(right_hit).t)
          THEN left_hit ELSE right_hit)
    ELSE IF IsSome(left_hit) THEN left_hit
    ELSE right_hit

RECURSIVE traverse(_, _, _, _, _, _)
traverse(nds, node_index, r, t_min, t_max, objects) ==
    LET nd == nds[node_index + 1]
    IN  IF nd.slab = "Node"
        THEN CHOOSE out \in
               {IF IsSome(intersection)
                THEN CHOOSE hit \in
                       {closer_hit(left_hit, right_hit) :
                          left_hit \in {traverse(nds, nd.left_index, r,
                                                 Unwrap(intersection).tmin,
                                                 Unwrap(intersection).tmax, objects)},
                          right_hit \in {traverse(nds, nd.right_index, r,
                                                  Unwrap(intersection).tmin,
                                                  Unwrap(intersection).tmax, objects)}} : TRUE
                ELSE None :
                  intersection \in {intersects(nd.bounds, r, t_min, t_max)}} : TRUE
        ELSE Hittable_hit(objects[nd.shape_index + 1], r, t_min, t_max)

\* BvhTree::hit; &self.nodes[0] of an empty node array is out of bounds
BvhTree_hit(hs, nds, r, ray_tmin, ray_tmax) ==
    IF Len(nds) = 0
    THEN Panicked("index out of bounds: the len is 0 but the index is 0")
    ELSE Returned(traverse(nds, 0, r, ray_tmin, ray_tmax, hs))

BvhTree_new ==
    [kind |-> "BvhTree", hittables |-> <<>>, nodes |-> <<>>,
     bounds |-> BoundingBox_empty]

\* the new shape gets a leaf at the end of the node array, nothing is rebuilt
BvhTree_add_appends_leaf(self, object) ==
    [kind |-> "BvhTree",
     hittables |-> Append(self.hittables, object),
     nodes |-> Append(self.nodes, Leaf(Len(self.nodes), Len(self.hittables))),
     bounds |-> box_between(self.bounds, Hittable_bounding_box(object))]

\* the list is not empty after the push, so build_nodes returns
BvhTree_add(self, object) ==
    CHOOSE out \in
      {[kind |-> "BvhTree",
        hittables |-> built.value.list,
        nodes |-> built.value.vec,
        bounds |-> box_between(tree.bounds, Hittable_bounding_box(object))] :
          tree \in {self},
          built \in {build_nodes(Append(self.hittables, object))}} : TRUE

(***************************************************************************)
(* BvhTree::hit one node at a time, as a worker of Camera::render runs it  *)
(* next to the other workers.  A worker holds its ray, the stack of the    *)
(* calls of traverse it is in, and the value being returned to the top     *)
(* call (ret is Some(value), the value itself an Option).                  *)
(***************************************************************************)
Frame(node_index, t_min, t_max) ==
    [node_index |-> node_index, t_min |-> t_min, t_max |-> t_max,
     stage |-> "enter", left_hit |-> None,
     child_tmin |-> t_min, child_tmax |-> t_max]

Worker(ray, ray_tmin, ray_tmax) ==
    [ray |-> ray, stack |-> <<Frame(0, ray_tmin, ray_tmax)>>, ret |-> None,
     done |-> FALSE, result |-> None]

Pop(stack) == SubSeq(stack, 1, Len(stack) - 1)

\* the children are given the range the Node received
traverse_enter_range_kept(w, nds, objects) ==
    LET f  == w.stack[Len(w.stack)]
        nd == nds[f.node_index + 1]
    IN  IF nd.slab = "Leaf"
        THEN [w EXCEPT !.stack = Pop(@),
                       !.ret = Some(Hittable_hit(objects[nd.shape_index + 1], w.ray,
                                                 f.t_min, f.t_max))]
        ELSE CHOOSE out \in
               {IF IsSome(intersection)
                THEN [w EXCEPT
                        !.stack = Append(
                            [@ EXCEPT ![Len(w.stack)] =
                                [f EXCEPT !.stage = "left"]],
                            Frame(nd.left_index, f.t_min, f.t_max))]
                ELSE [w EXCEPT !.stack = Pop(@), !.ret = Some(None)] :
                  intersection \in {intersects(nd.bounds, w.ray, f.t_min, f.t_max)}} : TRUE

\* the call on top of the stack starts: traverse up to its first inner call
traverse_enter(w, nds, objects) ==
    LET f  == w.stack[Len(w.stack)]
        nd == nds[f.node_index + 1]
    IN  IF nd.slab = "Leaf"
        THEN [w EXCEPT !.stack = Pop(@),
                       !.ret = Some(Hittable_hit(objects[nd.shape_index + 1], w.ray,
                                                 f.t_min, f.t_max))]
        ELSE CHOOSE out \in
               {IF IsSome(intersection)
                THEN [w EXCEPT
                        !.stack = Append(
                            [@ EXCEPT ![Len(w.stack)] =
                                [f EXCEPT !.stage = "left",
                                          !.child_tmin = Unwrap(intersection).tmin,
                                          !.child_tmax = Unwrap(intersection).tmax]],
                            Frame(nd.left_index, Unwrap(intersection).tmin,
                                  Unwrap(intersection).tmax))]
                ELSE [w EXCEPT !.stack = Pop(@), !.ret = Some(None)] :
                  intersection \in {intersects(nd.bounds, w.ray, f.t_min, f.t_max)}} : TRUE

\* after the left child the Node calls the left child again
traverse_return_left_twice(w, nds, objects) ==
    IF Len(w.stack) = 0
    THEN [w EXCEPT !.ret = None, !.done = TRUE, !.result = Unwrap(w.ret)]
    ELSE LET f  == w.stack[Len(w.stack)]
             nd == nds[f.node_index + 1]
         IN  IF f.stage = "left"
             THEN [w EXCEPT
                     !.ret = None,
                     !.stack = Append(
                         [@ EXCEPT ![Len(w.stack)] =
                             [f EXCEPT !.stage = "right", !.left_hit = Unwrap(w.ret)]],
                         Frame(nd.left_index, f.child_tmin, f.child_tmax))]
             ELSE [w EXCEPT !.stack = Pop(@),
                            !.ret = Some(closer_hit(f.left_hit, Unwrap(w.ret)))]

\* a value comes back: to BvhTree::hit, or to the call of traverse on top of
\* the stack, which goes on to its right child or returns the closer hit
traverse_return(w, nds, objects) ==
    IF Len(w.stack) = 0
    THEN [w EXCEPT !.ret = None, !.done = TRUE, !.result = Unwrap(w.ret)]
    ELSE LET f  == w.stack[Len(w.stack)]
             nd == nds[f.node_index + 1]
         IN  IF f.stage = "left"
             THEN [w EXCEPT
                     !.ret = None,
                     !.stack = Append(
                         [@ EXCEPT ![Len(w.stack)] =
                             [f EXCEPT !.stage = "right", !.left_hit = Unwrap(w.ret)]],
                         Frame(nd.right_index, f.child_tmin, f.child_tmax))]
             ELSE [w EXCEPT !.stack = Pop(@),
                            !.ret = Some(closer_hit(f.left_hit, Unwrap(w.ret)))]

traverse_step(w, nds, objects) ==
    IF IsSome(w.ret) THEN traverse_return(w, nds, objects)
    ELSE traverse_enter(w, nds, objects)

\* the shape of the leaf just visited is moved to the front of the shapes
hit_step_moves_shape_to_front(w, tree) ==
    LET f  == w.stack[Len(w.stack)]
        nd == tree.nodes[f.node_index + 1]
    IN  [worker |-> traverse_step(w, tree.nodes, tree.hittables),
         tree |-> IF ~IsSome(w.ret) /\ nd.slab = "Leaf"
                  THEN [tree EXCEPT !.hittables =
                           [@ EXCEPT ![1] = tree.hittables[nd.shape_index + 1],
                                     ![nd.shape_index + 1] = tree.hittables[1]]]
                  ELSE tree]

\* one step of hit(&self, ..): the worker moves on, the tree behind the
\* shared reference is as it was
hit_step(w, tree) ==
    [worker |-> traverse_step(w, tree.nodes, tree.hittables), tree |-> tree]

(***************************************************************************)
(* trait Hittable (hittable.rs): hit, by the kind of shape.  A tree that   *)
(* is a member of another shape is one that has shapes.                    *)
(***************************************************************************)
Hittable_hit(obj, r, ray_tmin, ray_tmax) ==
    CASE obj.kind = "Sphere"       -> Sphere_hit(obj, r, ray_tmin, ray_tmax)
      [] obj.kind = "Quad"         -> Quad_hit(obj, r, ray_tmin, ray_tmax)
      [] obj.kind = "Cube"         -> Cube_hit(obj, r, ray_tmin, ray_tmax)
      [] obj.kind = "Translate"    -> Translate_hit(obj, r, ray_tmin, ray_tmax)
      [] obj.kind = "RotateY"      -> RotateY_hit(obj, r, ray_tmin, ray_tmax)
      [] obj.kind = "HittableList" -> HittableList_hit(obj, r, ray_tmin, ray_tmax)
      [] obj.kind = "BvhTree"      ->
            BvhTree_hit(obj.hittables, obj.nodes, r, ray_tmin, ray_tmax).value

(***************************************************************************)
(* Construction and merging of boxes as operations of their own            *)
(***************************************************************************)
MaxCoord == 2

MaxBoxCoord == 1

BoxPoints == {IntPoint(x, y, z) : x, y, z \in 0..MaxCoord}

MergeCoords == 2..(MaxBoxCoord + 2)

\* the boxes that are merged: built from two points, or the empty box
MergeBoxes ==
    {BoundingBox_new(IntPoint(a[1], a[2], a[3]), IntPoint(b[1], b[2], b[3])) :
        a, b \in MergeCoords \X MergeCoords \X MergeCoords}
    \cup {BoundingBox_empty}

\* the boxes whose longest axis is asked for
AxisBoxes ==
    {BoundingBox_new(a, b) : a, b \in BoxPoints} \cup MergeBoxes

\* BvhTree::new and HittableList::new
EmptyScene ==
    /\ hittables = <<>>
    /\ nodes = <<>>
    /\ bounds = BoundingBox_empty
    /\ list = HittableList_new

InitBox ==
    /\ EmptyScene
    /\ call \in
         {[op |-> "BoundingBox::new", done |-> FALSE, a |-> a, b |-> b] :
             a, b \in BoxPoints}
         \cup
         {[op |-> "box_between", done |-> FALSE, A |-> A, B |-> B] :
             A, B \in MergeBoxes}
         \cup
         {[op |-> "longest_axis", done |-> FALSE, self |-> self] :
             self \in AxisBoxes}

CallBoundingBoxNew ==
    /\ call.op = "BoundingBox::new"
    /\ ~call.done
    /\ call' = [call EXCEPT !.done = TRUE] @@ [out |-> BoundingBox_new(call.a, call.b)]
    /\ UNCHANGED <<hittables, nodes, bounds, list>>

CallBoxBetween ==
    /\ call.op = "box_between"
    /\ ~call.done
    /\ call' = [call EXCEPT !.done = TRUE] @@ [out |-> box_between(call.A, call.B)]
    /\ UNCHANGED <<hittables, nodes, bounds, list>>

CallLongestAxis ==
    /\ call.op = "longest_axis"
    /\ ~call.done
    /\ call' = [call EXCEPT !.done = TRUE] @@ [out |-> longest_axis(call.self)]
    /\ UNCHANGED <<hittables, nodes, bounds, list>>

NextBox == CallBoundingBoxNew \/ CallBoxBetween \/ CallLongestAxis

SpecBox == InitBox /\ [][NextBox]_vars

(***************************************************************************)
(* The ray/box slab test as an operation of its own                        *)
(***************************************************************************)
MaxOrigin == 2

MaxTMax == 3

DirComponents == {-1, 0, 1, 2}

SlabBoxes ==
    {BoundingBox_new(IntPoint(-1, -1, -1), IntPoint(1, 1, 1)),
     BoundingBox_new(IntPoint(-2, -1, 0), IntPoint(2, 1, 0))}

SlabOrigins == {IntPoint(x, y, z) : x, y, z \in -MaxOrigin..MaxOrigin}

Directions ==
    {IntPoint(x, y, z) : x, y, z \in DirComponents} \ {IntPoint(0, 0, 0)}

SlabRanges ==
    {<<R(lo), hi>> : lo \in 0..1,
                     hi \in {R(1), R(MaxTMax), INFINITY}}

InitSlab ==
    /\ EmptyScene
    /\ \E bx \in SlabBoxes, o \in SlabOrigins, d \in Directions, rg \in SlabRanges :
          call = [op |-> "intersects", done |-> FALSE, self |-> bx,
                  ray |-> Ray_new(o, d, R(0)), t_min |-> rg[1], t_max |-> rg[2]]

CallIntersects ==
    /\ call.op = "intersects"
    /\ ~call.done
    /\ call' = [call EXCEPT !.done = TRUE]
                 @@ [out |-> intersects(call.self, call.ray, call.t_min, call.t_max)]
    /\ UNCHANGED <<hittables, nodes, bounds, list>>

NextSlab == CallIntersects

SpecSlab == InitSlab /\ [][NextSlab]_vars

(***************************************************************************)
(* Sphere::hit as an operation of its own                                  *)
(***************************************************************************)
MaxRadius == 2

\* a sphere at rest at the origin, and one moving along x; with the time
\* of the ray
SphereMotions ==
    {<<Ray_new(IntPoint(0, 0, 0), IntPoint(0, 0, 0), R(0)), R(0)>>,
     <<Ray_new(IntPoint(0, 0, 0), IntPoint(1, 0, 0), R(0)), R(0)>>,
     <<Ray_new(IntPoint(0, 0, 0), IntPoint(1, 0, 0), R(0)), R(1)>>}

SphereDirections == {d \in Directions : d[2].n \in {-1, 0, 1}}

SphereRanges ==
    {<<R(0), INFINITY>>, <<R(1), INFINITY>>, <<R(1), R(MaxTMax)>>, <<R(0), R(1)>>}

SphereOrigins ==
    {IntPoint(x, 0, z) : x, z \in -MaxOrigin..MaxOrigin} \cup {IntPoint(0, 0, -5)}

SphereCall(m, rad, o, d, rg) ==
    [op |-> "Sphere::hit", done |-> FALSE,
     self |-> Sphere_new(m[1], R(rad), "mat"),
     ray |-> Ray_new(o, d, m[2]), t_min |-> rg[1], t_max |-> rg[2]]

InitSphere ==
    /\ EmptyScene
    /\ \E m \in SphereMotions, rad \in 1..MaxRadius, o \in SphereOrigins,
          d \in SphereDirections, rg \in SphereRanges :
          /\ call = SphereCall(m, rad, o, d, rg)
          /\ \/ Sphere_discriminant(call.self, call.ray).n < 0
             \/ HasExactSqrt(Sphere_discriminant(call.self, call.ray))

CallSphereHit ==
    /\ call.op = "Sphere::hit"
    /\ ~call.done
    /\ call' = [call EXCEPT !.done = TRUE]
                 @@ [out |-> Sphere_hit(call.self, call.ray, call.t_min, call.t_max)]
    /\ UNCHANGED <<hittables, nodes, bounds, list>>

NextSphere == CallSphereHit

SpecSphere == InitSphere /\ [][NextSphere]_vars

(***************************************************************************)
(* Quad::hit as an operation of its own.  The ray of a call is aimed at    *)
(* the point q + alpha u + beta v of the quad's plane, from an origin      *)
(* off that point; alpha and beta are recorded with the call.              *)
(***************************************************************************)
MaxAim == 3

\* alpha, beta in {-1/2, 0, 1/2, 1, 3/2, ...}
AimCoords == {Norm(k, 2) : k \in -1..MaxAim}

\* corner and edge vectors: an axis-aligned square, a parallelogram, a side
\* of a cube as Cube::new builds it, and a tilted rectangle
QuadShapes ==
    {<<IntPoint(0, 0, 0), IntPoint(2, 0, 0), IntPoint(0, 2, 0)>>,
     <<IntPoint(1, 0, 0), IntPoint(2, 0, 0), IntPoint(1, 2, 0)>>,
     <<IntPoint(1, -1, 1), IntPoint(0, 0, -2), IntPoint(0, 2, 0)>>,
     <<IntPoint(0, 0, 0), IntPoint(0, 3, 4), IntPoint(2, 0, 0)>>}

\* the ray runs from target - k*off to the target in 1/k of a unit of t
AimOffsets ==
    {IntPoint(x, y, z) : x, y, z \in -1..1} \ {IntPoint(0, 0, 0)}

\* directions that leave an axis plane by 1 part in 10000: half of 1e-8 in
\* the units of the model at speed 1, 1e-8 itself at speed 2
GrazingOffsets ==
    {Vec3_new(R(1), R(0), Norm(1, 10000)), Vec3_new(Norm(1, 10000), R(1), R(0))}

\* the ranges of the slab test, and one that ends at 1/2
QuadRanges == SlabRanges \cup {<<R(0), Norm(1, 2)>>}

QuadCall(sh, al, be, off, k, rg) ==
    [op |-> "Quad::hit", done |-> FALSE,
     self |-> Quad_new(sh[1], sh[2], sh[3], "mat"),
     alpha |-> al, beta |-> be,
     ray |-> Ray_new(VSub(VAdd(sh[1], VAdd(VScale(sh[2], al), VScale(sh[3], be))),
                          off),
                     VScale(off, R(k)), R(0)),
     hit_t |-> Norm(1, k),
     t_min |-> rg[1], t_max |-> rg[2]]

InitQuad ==
    /\ EmptyScene
    /\ \E sh \in QuadShapes, al \in AimCoords, be \in AimCoords,
          off \in AimOffsets \cup GrazingOffsets, k \in 1..2, rg \in QuadRanges :
          call = QuadCall(sh, al, be, off, k, rg)

CallQuadHit ==
    /\ call.op = "Quad::hit"
    /\ ~call.done
    /\ call' = [call EXCEPT !.done = TRUE]
                 @@ [out |-> Quad_hit(call.self, call.ray, call.t_min, call.t_max),
                     divided |-> Quad_hit_divides(call.self, call.ray)]
    /\ UNCHANGED <<hittables, nodes, bounds, list>>

NextQuad == CallQuadHit

SpecQuad == InitQuad /\ [][NextQuad]_vars

(***************************************************************************)
(* Translate::hit and RotateY::hit as operations of their own, around a    *)
(* sphere, a quad and a cube.                                              *)
(***************************************************************************)
WrappedShapes ==
    {Sphere_new(Ray_new(IntPoint(1, 0, 0), IntPoint(0, 0, 0), R(0)), R(1), "mat"),
     Quad_new(IntPoint(-2, -2, 0), IntPoint(4, 0, 0), IntPoint(0, 4, 0), "mat"),
     Cube_new(IntPoint(-1, -1, -1), IntPoint(1, 1, 1), "mat")}

\* small offsets, and one that exceeds every odd number the rounded sums hold
TranslateOffsets ==
    {IntPoint(1, 0, 0), IntPoint(0, 1, 2), IntPoint(-1, 0, 2), IntPoint(-1, 1, 0),
     IntPoint(Pow2(MantissaBits), 0, 0)}

RotateAngles == {0, 90, 180, 270}

WrapOrigins == {IntPoint(x, y, z) : x \in -1..1, y \in 0..1, z \in {-2, 0, 3}}

WrapDirections == {d \in Directions : \A i \in 1..3 : d[i].n \in {-1, 0, 1}}

WrapRanges == {<<R(0), INFINITY>>, <<R(1), R(MaxTMax)>>}

\* the ray a wrapper hands to the shape it wraps
InnerRay(self, r) ==
    IF self.kind = "Translate"
    THEN Ray_new(VSubRounded(r.origin, self.offset), r.direction, r.time)
    ELSE RotateY_rotated_r(self, r)

\* the hit of the wrapped shape on that ray
InnerHit(self, r, t_min, t_max) ==
    CHOOSE out \in
      {Hittable_hit(self.object, inner, t_min, t_max) :
         inner \in {InnerRay(self, r)}} : TRUE

\* x is a value of MantissaBits significant bits
Representable(x) == f64_round(x) = x

\* the wrapped shape takes an exact square root on the ray, and the point
\* it returns has representable coordinates
ExactInside(self, r, t_min, t_max) ==
    /\ self.object.kind = "Sphere" =>
          \A disc \in {Sphere_discriminant(self.object, inner) :
                           inner \in {InnerRay(self, r)}} :
             disc.n < 0 \/ HasExactSqrt(disc)
    /\ \A hit \in {InnerHit(self, r, t_min, t_max)} :
          IsSome(hit) => \A i \in 1..3 : Representable(Unwrap(hit).p[i])

WrapCall(op, self, angle, o, d, rg) ==
    [op |-> op, done |-> FALSE, self |-> self, angle |-> angle,
     ray |-> Ray_new(o, d, R(0)), t_min |-> rg[1], t_max |-> rg[2]]

InitWrap ==
    /\ EmptyScene
    /\ \E sh \in WrappedShapes, o \in WrapOrigins, d \in WrapDirections,
          rg \in WrapRanges :
          /\ \/ \E off \in TranslateOffsets :
                   call = WrapCall("Translate::hit", Translate_new(sh, off), 0,
                                   VAddRounded(o, off), d, rg)
             \/ \E angle \in RotateAngles :
                   call = WrapCall("RotateY::hit", RotateY_new(sh, angle), angle,
                                   o, d, rg)
          /\ ExactInside(call.self, call.ray, call.t_min, call.t_max)

CallTranslateHit ==
    /\ call.op = "Translate::hit"
    /\ ~call.done
    /\ call' = [call EXCEPT !.done = TRUE]
                 @@ [out |-> Translate_hit(call.self, call.ray, call.t_min, call.t_max)]
    /\ UNCHANGED <<hittables, nodes, bounds, list>>

CallRotateYHit ==
    /\ call.op = "RotateY::hit"
    /\ ~call.done
    /\ call' = [call EXCEPT !.done = TRUE]
                 @@ [out |-> RotateY_hit(call.self, call.ray, call.t_min, call.t_max)]
    /\ UNCHANGED <<hittables, nodes, bounds, list>>

NextWrap == CallTranslateHit \/ CallRotateYHit

SpecWrap == InitWrap /\ [][NextWrap]_vars

(***************************************************************************)
(* Hittable::hit on a surface of each kind: the shapes, the wrappers       *)
(* around them, a list and a tree.                                         *)
(***************************************************************************)
Surfaces ==
    LET s  == Sphere_new(Ray_new(IntPoint(1, 0, 0), IntPoint(0, 0, 0), R(0)), R(1), "m1")
        s2 == Sphere_new(Ray_new(IntPoint(0, 0, 3), IntPoint(0, 0, 0), R(0)), R(1), "m2")
        q  == Quad_new(IntPoint(-2, -2, 0), IntPoint(4, 0, 0), IntPoint(0, 4, 0), "m3")
        c  == Cube_new(IntPoint(-1, -1, -1), IntPoint(1, 1, 1), "m4")
    IN  {s, q, c,
         Translate_new(s, IntPoint(0, 1, 2)),
         Translate_new(c, IntPoint(1, 0, 0)),
         RotateY_new(s, 90),
         RotateY_new(q, 90),
         RotateY_new(c, 270),
         Translate_new(RotateY_new(q, 180), IntPoint(0, 0, 1)),
         HittableList_add(HittableList_add(HittableList_new, s), q),
         BvhTree_add(BvhTree_add(BvhTree_add(BvhTree_new, s), q), s2)}

\* every square root the surface takes on the ray is exact
RECURSIVE ExactSqrt(_, _)
ExactSqrt(obj, r) ==
    CASE obj.kind = "Sphere" ->
            \A disc \in {Sphere_discriminant(obj, r)} :
               disc.n < 0 \/ HasExactSqrt(disc)
      [] obj.kind \in {"Translate", "RotateY"} ->
            \A inner \in {InnerRay(obj, r)} : ExactSqrt(obj.object, inner)
      [] obj.kind \in {"HittableList", "BvhTree"} ->
            \A i \in 1..Len(obj.hittables) : ExactSqrt(obj.hittables[i], r)
      [] OTHER -> TRUE

\* no sum a Translate of the surface takes on the ray is rounded
RECURSIVE ExactSums(_, _, _, _)
ExactSums(obj, r, t_min, t_max) ==
    CASE obj.kind = "Translate" ->
            /\ VSubRounded(r.origin, obj.offset) = VSub(r.origin, obj.offset)
            /\ \A hit \in {InnerHit(obj, r, t_min, t_max)} :
                  IsSome(hit) =>
                     VAddRounded(Unwrap(hit).p, obj.offset)
                        = VAdd(Unwrap(hit).p, obj.offset)
            /\ \A inner \in {InnerRay(obj, r)} :
                  ExactSums(obj.object, inner, t_min, t_max)
      [] obj.kind = "RotateY" ->
            \A inner \in {InnerRay(obj, r)} :
               ExactSums(obj.object, inner, t_min, t_max)
      [] OTHER -> TRUE

InitSurface ==
    /\ EmptyScene
    /\ \E self \in Surfaces, o \in WrapOrigins, d \in WrapDirections,
          rg \in WrapRanges :
          /\ call = [op |-> "Hittable::hit", done |-> FALSE, self |-> self,
                     ray |-> Ray_new(o, d, R(0)), t_min |-> rg[1], t_max |-> rg[2]]
          /\ ExactSqrt(self, call.ray)
          /\ ExactSums(self, call.ray, call.t_min, call.t_max)

CallHit ==
    /\ call.op = "Hittable::hit"
    /\ ~call.done
    /\ call' = [call EXCEPT !.done = TRUE]
                 @@ [out |-> Hittable_hit(call.self, call.ray, call.t_min, call.t_max)]
    /\ UNCHANGED <<hittables, nodes, bounds, list>>

NextSurface == CallHit

SpecSurface == InitSurface /\ [][NextSurface]_vars

(***************************************************************************)
(* Camera::render: the workers of the parallel iterator each send a ray    *)
(* through the one tree, a node at a time, in any interleaving.            *)
(***************************************************************************)
MaxWorkers == 2

\* world.hit(ray, 0.001, f64::INFINITY) of ray_colour
RENDER_T_MIN == Norm(1, 1000)

RenderWorld ==
    BvhTree_add(
        BvhTree_add(
            BvhTree_add(BvhTree_new,
                Sphere_new(Ray_new(IntPoint(0, 0, 0), IntPoint(0, 0, 0), R(0)),
                           R(1), "m1")),
            Sphere_new(Ray_new(IntPoint(0, 0, 3), IntPoint(0, 0, 0), R(0)), R(1), "m2")),
        Quad_new(IntPoint(-1, -1, 2), IntPoint(2, 0, 0), IntPoint(0, 2, 0), "m4"))

RenderRays ==
    {Ray_new(o, d, R(0)) :
        o \in {IntPoint(0, 0, -2), IntPoint(0, 0, 5), IntPoint(-2, 0, 0)},
        d \in {IntPoint(0, 0, 1), IntPoint(0, 0, -1), IntPoint(1, 0, 0)}}

InitRender ==
    /\ hittables = RenderWorld.hittables
    /\ nodes = RenderWorld.nodes
    /\ bounds = RenderWorld.bounds
    /\ list = HittableList_new
    /\ \E rays \in [1..MaxWorkers -> RenderRays] :
          call = [op |-> "render",
                  workers |-> [i \in 1..MaxWorkers |->
                                 Worker(rays[i], RENDER_T_MIN, INFINITY)]]

WorkerStep(i) ==
    /\ call.op = "render"
    /\ ~call.workers[i].done
    /\ \E after \in {hit_step(call.workers[i],
                                [kind |-> "BvhTree", hittables |-> hittables,
                                 nodes |-> nodes, bounds |-> bounds])} :
          /\ call' = [call EXCEPT !.workers[i] = after.worker]
          /\ hittables' = after.tree.hittables
          /\ nodes' = after.tree.nodes
          /\ bounds' = after.tree.bounds
    /\ UNCHANGED list

NextRender == \E i \in 1..MaxWorkers : WorkerStep(i)

SpecRender == InitRender /\ [][NextRender]_vars

(***************************************************************************)
(* Rays through the points of the surface of a Cube                        *)
(***************************************************************************)
MaxCubeCoord == 1

\* pairs of opposite corners, in both orders
CubeCorners ==
    {<<IntPoint(-1, -1, -1), IntPoint(MaxCubeCoord, MaxCubeCoord, MaxCubeCoord)>>,
     <<IntPoint(MaxCubeCoord, MaxCubeCoord, MaxCubeCoord), IntPoint(-1, -1, -1)>>,
     <<IntPoint(0, -1, 0), IntPoint(MaxCubeCoord, 1, MaxCubeCoord + 1)>>,
     <<IntPoint(0, 1, MaxCubeCoord + 1), IntPoint(MaxCubeCoord, -1, 0)>>}

\* the points with integer coordinates on the surface of the box
SurfacePoints(a, b) ==
    LET min == most_minimum(a, b)
        max == most_maximum(a, b)
    IN  {p \in {IntPoint(x, y, z) : x, y, z \in -1..(MaxCubeCoord + 1)} :
           /\ \A i \in 1..3 : FLe(min[i], p[i]) /\ FLe(p[i], max[i])
           /\ \E i \in 1..3 : p[i] = min[i] \/ p[i] = max[i]}

InitCube ==
    /\ EmptyScene
    /\ \E c \in CubeCorners, d \in WrapDirections :
         \E p \in SurfacePoints(c[1], c[2]) :
            call = [op |-> "Cube::hit", done |-> FALSE,
                    a |-> c[1], b |-> c[2],
                    self |-> Cube_new(c[1], c[2], "mat"),
                    point |-> p,
                    ray |-> Ray_new(VSub(p, d), d, R(0)),
                    t_min |-> R(0), t_max |-> INFINITY]

CallCubeHit ==
    /\ call.op = "Cube::hit"
    /\ ~call.done
    /\ call' = [call EXCEPT !.done = TRUE]
                 @@ [out |-> Cube_hit(call.self, call.ray, call.t_min, call.t_max)]
    /\ UNCHANGED <<hittables, nodes, bounds, list>>

NextCube == CallCubeHit

SpecCube == InitCube /\ [][NextCube]_vars

(***************************************************************************)
(* Camera::make_ray in the workers of render (camera.rs)                   *)
(***************************************************************************)
MaxSamples == 2

\* The pc of a worker is its place in make_ray: before a lock() of rng_src
\* ("sample_square", "ray_time"), inside the call of lock() (".lock"),
\* holding the guard (".guard", ".drawn"), or past its last sample ("done").

\* Camera::new: one SmallRng behind one Mutex; drawn counts the values the
\* generator has handed out, locked_by is the worker holding the guard
rng_src_new == [locked_by |-> 0, drawn |-> 0]

InitRays ==
    /\ EmptyScene
    /\ call = [op |-> "make_ray",
               rng_src |-> rng_src_new,
               workers |-> [i \in 1..MaxWorkers |->
                              [pc |-> "sample_square", samples |-> 0,
                               values |-> <<>>]]]

\* self.rng_src.lock() is called, in sample_square or for ray_time
CallLock(i) ==
    /\ call.op = "make_ray"
    /\ call.workers[i].pc \in {"sample_square", "ray_time"}
    /\ call' = [call EXCEPT
                  !.workers[i].pc =
                      IF @ = "sample_square" THEN "sample_square.lock"
                      ELSE "ray_time.lock"]
    /\ UNCHANGED <<hittables, nodes, bounds, list>>

\* lock() returns the guard once no other worker holds it
AcquireLock(i) ==
    /\ call.op = "make_ray"
    /\ call.workers[i].pc \in {"sample_square.lock", "ray_time.lock"}
    /\ call.rng_src.locked_by = 0
    /\ call' = [call EXCEPT
                  !.rng_src.locked_by = i,
                  !.workers[i].pc =
                      IF @ = "sample_square.lock" THEN "sample_square.guard"
                      ELSE "ray_time.guard"]
    /\ UNCHANGED <<hittables, nodes, bounds, list>>

\* guard.random::<f64>(): two values in sample_square, one for ray_time;
\* a value is named by its place in the stream of the generator
DrawSamples(i) ==
    /\ call.op = "make_ray"
    /\ call.workers[i].pc \in {"sample_square.guard", "ray_time.guard"}
    /\ call' =
         IF call.workers[i].pc = "sample_square.guard"
         THEN [call EXCEPT
                 !.rng_src.drawn = @ + 2,
                 !.workers[i].values =
                     @ \o <<call.rng_src.drawn + 1, call.rng_src.drawn + 2>>,
                 !.workers[i].pc = "sample_square.drawn"]
         ELSE [call EXCEPT
                 !.rng_src.drawn = @ + 1,
                 !.workers[i].values = Append(@, call.rng_src.drawn + 1),
                 !.workers[i].pc = "ray_time.drawn"]
    /\ UNCHANGED <<hittables, nodes, bounds, list>>

\* the guard is dropped; after ray_time the ray is made and the next sample
\* of the pixel starts
DropGuard(i) ==
    /\ call.op = "make_ray"
    /\ call.workers[i].pc \in {"sample_square.drawn", "ray_time.drawn"}
    /\ call' =
         IF call.workers[i].pc = "sample_square.drawn"
         THEN [call EXCEPT !.rng_src.locked_by = 0,
                           !.workers[i].pc = "ray_time"]
         ELSE [call EXCEPT !.rng_src.locked_by = 0,
                           !.workers[i].samples = @ + 1,
                           !.workers[i].pc =
                               IF call.workers[i].samples + 1 < MaxSamples
                               THEN "sample_square" ELSE "done"]
    /\ UNCHANGED <<hittables, nodes, bounds, list>>

NextRays ==
    \E i \in 1..MaxWorkers :
        \/ CallLock(i)
        \/ AcquireLock(i)
        \/ DrawSamples(i)
        \/ DropGuard(i)

SpecRays == InitRays /\ [][NextRays]_vars

(***************************************************************************)
(* Building a tree, one add after another                                  *)
(***************************************************************************)
MaxTreeShapes == 5

BuildShapes ==
    {Sphere_new(Ray_new(IntPoint(0, 0, 0), IntPoint(0, 0, 0), R(0)), R(1), "m1"),
     Sphere_new(Ray_new(IntPoint(3, 0, 0), IntPoint(0, 0, 0), R(0)), R(2), "m3"),
     Quad_new(IntPoint(-1, -1, 2), IntPoint(2, 0, 0), IntPoint(0, 2, 0), "m4")}

InitBuild ==
    /\ EmptyScene
    /\ call = [op |-> "BvhTree::new"]

AddShape(object) ==
    /\ Len(hittables) < MaxTreeShapes
    /\ LET tree == BvhTree_add([kind |-> "BvhTree", hittables |-> hittables,
                                 nodes |-> nodes, bounds |-> bounds], object)
       IN  /\ bounds' = tree.bounds
           /\ hittables' = tree.hittables
           /\ nodes' = tree.nodes
    /\ call' = [op |-> "add", object |-> object]
    /\ UNCHANGED list

NextBuild == \E object \in BuildShapes : AddShape(object)

SpecBuild == InitBuild /\ [][NextBuild]_vars

(***************************************************************************)
(* Queries of trees of every size, one step of traverse at a time          *)
(***************************************************************************)
QueryRays ==
    {Ray_new(IntPoint(-2, 0, 0), IntPoint(1, 0, 0), R(0)),
     Ray_new(IntPoint(0, 0, -2), IntPoint(0, 0, 1), R(0)),
     Ray_new(IntPoint(0, 0, 5), IntPoint(1, 0, 0), R(0))}

QueryRunning == call.op = "hit" /\ ~call.worker.done

\* add takes &mut self: no query is running
AddBetweenQueries(object) ==
    /\ ~QueryRunning
    /\ AddShape(object)

\* BvhTree::hit is called; visited lists the slots traverse is called on
StartQuery(ray) ==
    /\ ~QueryRunning
    /\ Len(hittables) >= 1
    /\ call' = [op |-> "hit", worker |-> Worker(ray, RENDER_T_MIN, INFINITY),
                visited |-> <<>>]
    /\ UNCHANGED <<hittables, nodes, bounds, list>>

QueryStep ==
    /\ QueryRunning
    /\ \E after \in {hit_step(call.worker,
                                [kind |-> "BvhTree", hittables |-> hittables,
                                 nodes |-> nodes, bounds |-> bounds])} :
          /\ call' = [call EXCEPT
                        !.worker = after.worker,
                        !.visited =
                            IF IsSome(call.worker.ret) THEN @
                            ELSE Append(@, call.worker.stack[
                                               Len(call.worker.stack)].node_index)]
          /\ hittables' = after.tree.hittables
          /\ nodes' = after.tree.nodes
          /\ bounds' = after.tree.bounds
    /\ UNCHANGED list

NextQuery ==
    \/ \E object \in BuildShapes : AddBetweenQueries(object)
    \/ \E ray \in QueryRays : StartQuery(ray)
    \/ QueryStep

\* weak fairness of QueryStep, the thread that called hit keeps running:
\* WF_vars(QueryStep) with ENABLED <<QueryStep>>_vars written out as
\* QueryRunning (every step of a running query changes the worker)
QueryFairness == []<>(~QueryRunning) \/ []<><<QueryStep>>_vars

SpecQuery == InitBuild /\ [][NextQuery]_vars /\ QueryFairness

(***************************************************************************)
(* The scene: shapes are added to a BvhTree and, the same shapes in the    *)
(* same order, to a HittableList; rays are then sent through both.         *)
(***************************************************************************)
MaxShapes == 3

StaticAt(x, y, z) == Ray_new(IntPoint(x, y, z), IntPoint(0, 0, 0), R(0))

SceneShapes ==
    {Sphere_new(StaticAt(0, 0, 0), R(1), "m1"),
     Sphere_new(StaticAt(0, 0, 3), R(1), "m2"),
     Sphere_new(StaticAt(3, 0, 0), R(2), "m3"),
     Quad_new(IntPoint(-1, -1, 2), IntPoint(2, 0, 0), IntPoint(0, 2, 0), "m4")}

SceneOrigins ==
    {IntPoint(0, 0, -2), IntPoint(0, 0, 0), IntPoint(-2, 0, 0),
     IntPoint(0, 0, 5), IntPoint(3, 0, -3), IntPoint(0, -2, 3)}

SceneDirections == {d \in Directions : \A i \in 1..3 : d[i].n \in {-1, 0, 1}}

SceneRanges == {<<R(0), INFINITY>>, <<R(1), R(MaxTMax)>>}

Idle == [op |-> "idle"]

\* every square root the shapes of the scene take on the ray is exact
ExactOn(hs, ray) ==
    \A i \in 1..Len(hs) :
        hs[i].kind = "Sphere" =>
            \/ Sphere_discriminant(hs[i], ray).n < 0
            \/ HasExactSqrt(Sphere_discriminant(hs[i], ray))

Init ==
    /\ hittables = <<>>
    /\ nodes = <<>>
    /\ bounds = BoundingBox_empty
    /\ list = HittableList_new
    /\ call = Idle

\* BvhTree::add
TreeAdd(object) ==
    /\ call = Idle
    /\ Len(hittables) < MaxShapes
    /\ LET tree == BvhTree_add([kind |-> "BvhTree", hittables |-> hittables,
                                 nodes |-> nodes, bounds |-> bounds], object)
       IN  /\ bounds' = tree.bounds
           /\ hittables' = tree.hittables
           /\ nodes' = tree.nodes
    /\ call' = [op |-> "add", object |-> object]
    /\ UNCHANGED list

\* HittableList::add of the shape the tree has just been given
ListAdd ==
    /\ call.op = "add"
    /\ list' = HittableList_add(list, call.object)
    /\ call' = Idle
    /\ UNCHANGED <<hittables, nodes, bounds>>

\* BvhSlab::build_nodes called on the shapes of the tree
BuildNodes ==
    /\ call = Idle
    /\ call' = [op |-> "build_nodes", out |-> build_nodes(hittables).outcome]
    /\ UNCHANGED <<hittables, nodes, bounds, list>>

\* BvhTree::hit
TreeHit(ray, t_min, t_max) ==
    /\ call = Idle
    /\ ExactOn(hittables, ray)
    /\ call' = [op |-> "hit", stage |-> "tree", ray |-> ray,
                t_min |-> t_min, t_max |-> t_max,
                tree_out |-> BvhTree_hit(hittables, nodes, ray, t_min, t_max)]
    /\ UNCHANGED <<hittables, nodes, bounds, list>>

\* HittableList::hit with the ray the tree was asked about
ListHit ==
    /\ call.op = "hit"
    /\ call.stage = "tree"
    /\ call' = [call EXCEPT !.stage = "both"]
                 @@ [list_out |-> HittableList_hit(list, call.ray, call.t_min, call.t_max)]
    /\ UNCHANGED <<hittables, nodes, bounds, list>>

\* the caller drops the results; a panic is not returned from
Return ==
    /\ \/ call.op = "hit" /\ call.stage = "both" /\ call.tree_out.outcome = "returned"
       \/ call.op = "build_nodes" /\ call.out = "returned"
    /\ call' = Idle
    /\ UNCHANGED <<hittables, nodes, bounds, list>>

Next ==
    \/ \E object \in SceneShapes : TreeAdd(object)
    \/ ListAdd
    \/ BuildNodes
    \/ \E o \in SceneOrigins, d \in SceneDirections, rg \in SceneRanges :
          TreeHit(Ray_new(o, d, R(0)), rg[1], rg[2])
    \/ ListHit
    \/ Return

Spec == Init /\ [][Next]_vars

(***************************************************************************)
(* Properties of the scene                                                 *)
(***************************************************************************)
BothAnswered == call.op = "hit" /\ call.stage = "both"

\* C1: over the same n >= 1 shapes, the tree returns a hit exactly when the
\* flat list does, and the two hits have the same t.
C1_TreeEqualsList ==
    BothAnswered /\ Len(hittables) >= 1 =>
        /\ IsSome(call.tree_out.value) <=> IsSome(call.list_out)
        /\ IsSome(call.tree_out.value) /\ IsSome(call.list_out) =>
             Unwrap(call.tree_out.value).t = Unwrap(call.list_out).t

\* C2: a tree over zero shapes is reported as an explicit error: querying
\* the tree made by BvhTree::new, or building nodes over an empty list,
\* ends in an error value and never in a panic.
C2_EmptyTreeIsAnError ==
    /\ call.op = "hit" /\ Len(hittables) = 0 => call.tree_out.outcome = "error"
    /\ call.op = "build_nodes" /\ Len(hittables) = 0 => call.out = "error"

(***************************************************************************)
(* Properties of box construction and merging                              *)
(***************************************************************************)
IMin(x, y) == IF x < y THEN x ELSE y

IMax(x, y) == IF x > y THEN x ELSE y

NewDone == call.op = "BoundingBox::new" /\ call.done

BetweenDone == call.op = "box_between" /\ call.done

ProperBox(A) == \A i \in 1..3 : FLe(A.lower[i], A.upper[i])

Corners(A) == {<<x, y, z>> : x \in {A.lower[1], A.upper[1]},
                             y \in {A.lower[2], A.upper[2]},
                             z \in {A.lower[3], A.upper[3]}}

Contains(A, c) == \A i \in 1..3 : FLe(A.lower[i], c[i]) /\ FLe(c[i], A.upper[i])

MinMaxOfInputs ==
    \A i \in 1..3 :
        /\ call.out.lower[i] \in {call.A.lower[i], call.B.lower[i]}
        /\ FLe(call.out.lower[i], call.A.lower[i])
        /\ FLe(call.out.lower[i], call.B.lower[i])
        /\ call.out.upper[i] \in {call.A.upper[i], call.B.upper[i]}
        /\ FGe(call.out.upper[i], call.A.upper[i])
        /\ FGe(call.out.upper[i], call.B.upper[i])

\* C4 as stated: for all boxes A and B, box_between(A,B) is the elementwise
\* min of the lowers and max of the uppers, and contains every corner of A
\* and every corner of B.
C4_Original ==
    BetweenDone =>
        /\ MinMaxOfInputs
        /\ \A c \in Corners(call.A) \cup Corners(call.B) : Contains(call.out, c)

\* C4 amended: the elementwise min/max holds for all boxes; the merge
\* contains every corner of each input that has lower <= upper on every
\* axis (the corners of the inverted empty box are not contained).
C4_MergeContains ==
    BetweenDone =>
        /\ MinMaxOfInputs
        /\ ProperBox(call.A) => \A c \in Corners(call.A) : Contains(call.out, c)
        /\ ProperBox(call.B) => \A c \in Corners(call.B) : Contains(call.out, c)

C4_Witness ==
    /\ BetweenDone
    /\ ProperBox(call.A)
    /\ ProperBox(call.B)
    /\ call.out # call.A
    /\ call.out # call.B

\* C5: the empty box is the neutral element of merging:
\* box_between(empty, A) = A and box_between(A, empty) = A.
C5_EmptyNeutral ==
    BetweenDone =>
        /\ call.A = BoundingBox_empty => call.out = call.B
        /\ call.B = BoundingBox_empty => call.out = call.A

C5_Witness ==
    /\ BetweenDone
    /\ call.A = BoundingBox_empty
    /\ call.A.lower = <<INFINITY, INFINITY, INFINITY>>
    /\ call.A.upper = <<NEG_INFINITY, NEG_INFINITY, NEG_INFINITY>>
    /\ ProperBox(call.B)
    /\ call.out = call.B

(***************************************************************************)
(* Properties of the slab test                                             *)
(***************************************************************************)
SlabDone == call.op = "intersects" /\ call.done

\* the two plane parameters of the call's ray on axis ax (0, 1, 2)
SlabT0(ax) ==
    FMul(FSub(axis(call.self.lower, ax), axis(call.ray.origin, ax)),
         FDiv(R(1), axis(call.ray.direction, ax)))

SlabT1(ax) ==
    FMul(FSub(axis(call.self.upper, ax), axis(call.ray.origin, ax)),
         FDiv(R(1), axis(call.ray.direction, ax)))

FMin2(x, y) == IF FLt(y, x) THEN y ELSE x

FMax2(x, y) == IF FLt(x, y) THEN y ELSE x

Entry(ax) == FMin2(SlabT0(ax), SlabT1(ax))

Exit(ax) == FMax2(SlabT0(ax), SlabT1(ax))

NoNaNSlab == \A ax \in 0..2 : ~IsNaN(SlabT0(ax)) /\ ~IsNaN(SlabT1(ax))

\* C6: on success intersects returns exactly the intersection of
\* [t_min,t_max] with the entry/exit intervals of the three axes, and it
\* returns no-hit exactly when that intersection is empty (tmax <= tmin).
C6_ExactInterval ==
    SlabDone /\ NoNaNSlab =>
        LET lo == FMax2(FMax2(call.t_min, Entry(0)), FMax2(Entry(1), Entry(2)))
            hi == FMin2(FMin2(call.t_max, Exit(0)), FMin2(Exit(1), Exit(2)))
        IN  IF FLe(hi, lo) THEN call.out = None
            ELSE call.out = Some([tmin |-> lo, tmax |-> hi])

OriginOutside ==
    \E i \in 1..3 : \/ FLt(call.ray.origin[i], call.self.lower[i])
                    \/ FGt(call.ray.origin[i], call.self.upper[i])

BehindOnAxis(ax) == FLt(SlabT0(ax), R(0)) /\ FLt(SlabT1(ax), R(0))

\* C7: origin outside the box, both slab parameters negative on some axis
\* (whichever of the three), t_min >= 0: intersects returns no-hit.
C7_AimedAway ==
    SlabDone /\ OriginOutside /\ FGe(call.t_min, R(0))
             /\ (\E ax \in 0..2 : BehindOnAxis(ax))
        => call.out = None

\* the box is behind the origin on the last axis only, and on the two
\* other axes the ray is inside the slabs for a while after t_min
C7_Witness ==
    /\ SlabDone
    /\ OriginOutside
    /\ BehindOnAxis(2)
    /\ \A ax \in 0..1 : /\ ~BehindOnAxis(ax)
                        /\ FLe(Entry(ax), call.t_min)
                        /\ FGt(Exit(ax), call.t_min)
    /\ call.out = None

TSamples == {Norm(k, 2) : k \in 0..(2 * MaxTMax + 2)}

\* the point of the call's ray at parameter t is strictly inside the box
InsideAt(t) ==
    LET p == Ray_at(call.ray, t)
    IN  \A i \in 1..3 : FLt(call.self.lower[i], p[i]) /\ FLt(p[i], call.self.upper[i])

CrossesInterior ==
    \E t \in TSamples : FLt(call.t_min, t) /\ FLt(t, call.t_max) /\ InsideAt(t)

\* C8: a ray whose part with t in (t_min,t_max) passes through the interior
\* of the box gets a record, and every record returned satisfies
\* t_min <= tmin <= tmax <= t_max.
C8_CrossingKept ==
    SlabDone =>
        /\ CrossesInterior => IsSome(call.out)
        /\ IsSome(call.out) =>
             /\ FLe(call.t_min, Unwrap(call.out).tmin)
             /\ FLe(Unwrap(call.out).tmin, Unwrap(call.out).tmax)
             /\ FLe(Unwrap(call.out).tmax, call.t_max)

\* the ray starts outside, runs against two axes and crosses the interior
C8_Witness ==
    /\ SlabDone
    /\ OriginOutside
    /\ CrossesInterior
    /\ call.ray.direction[1].n < 0
    /\ call.ray.direction[2].n < 0
    /\ IsSome(call.out)
    /\ FLt(call.t_min, Unwrap(call.out).tmin)
    /\ FLt(Unwrap(call.out).tmax, call.t_max)

(***************************************************************************)
(* Properties of Sphere::hit                                               *)
(***************************************************************************)
SphereDone == call.op = "Sphere::hit" /\ call.done

SphereCentre == Ray_at(call.self.movement, call.ray.time)

\* the point of the call's ray at parameter t lies on the sphere
OnSphere(t) ==
    length_squared(VSub(Ray_at(call.ray, t), SphereCentre))
        = FMul(call.self.radius, call.self.radius)

InRange(t) == FLt(call.t_min, t) /\ FLt(t, call.t_max)

\* the other solution of the quadratic, from the sum of its roots 2h/a
OtherRoot(t) ==
    FSub(FDiv(FMul(R(2), dot(call.ray.direction,
                             VSub(SphereCentre, call.ray.origin))),
              length_squared(call.ray.direction)),
         t)

\* C9: no hit when the discriminant is negative; otherwise the smaller root
\* if it is strictly inside (t_min,t_max), else the larger root if it is,
\* else no hit.  The sphere of radius 1 at the origin and the ray from
\* (0,0,-5) along (0,0,1) give t = 4, point (0,0,-1), normal (0,0,-1).
C9_SphereRoot ==
    SphereDone =>
        /\ Sphere_discriminant(call.self, call.ray).n < 0 => call.out = None
        /\ IsSome(call.out) =>
             LET rec == Unwrap(call.out)
             IN  /\ OnSphere(rec.t)
                 /\ InRange(rec.t)
                 /\ rec.p = Ray_at(call.ray, rec.t)
                 /\ FLt(OtherRoot(rec.t), rec.t) => ~InRange(OtherRoot(rec.t))
        /\ call.out = None =>
             \A t \in TSamples : OnSphere(t) => ~InRange(t)
        /\ /\ call.self.movement.direction = IntPoint(0, 0, 0)
           /\ call.self.radius = R(1)
           /\ call.ray.origin = IntPoint(0, 0, -5)
           /\ call.ray.direction = IntPoint(0, 0, 1)
           /\ InRange(R(4))
           => /\ IsSome(call.out)
              /\ Unwrap(call.out).t = R(4)
              /\ Unwrap(call.out).p = IntPoint(0, 0, -1)
              /\ Unwrap(call.out).normal = IntPoint(0, 0, -1)

\* the larger root is returned because the smaller one is not inside the range
C9_Witness ==
    /\ SphereDone
    /\ IsSome(call.out)
    /\ FLt(OtherRoot(Unwrap(call.out).t), Unwrap(call.out).t)
    /\ OtherRoot(Unwrap(call.out).t) = call.t_min

\* the example of the claim
C9_WitnessExample ==
    /\ SphereDone
    /\ call.self.radius = R(1)
    /\ call.ray.origin = IntPoint(0, 0, -5)
    /\ call.ray.direction = IntPoint(0, 0, 1)
    /\ IsSome(call.out)
    /\ Unwrap(call.out).t = R(4)

(***************************************************************************)
(* Properties of Quad::hit                                                 *)
(***************************************************************************)
QuadDone == call.op = "Quad::hit" /\ call.done

\* |n.D| < 1e-8 for the unit normal n of the quad and the direction D
NearParallel ==
    LET n == cross(call.self.u, call.self.v)
        nD == FDiv(dot(n, call.ray.direction), FSqrt(dot(n, n)))
    IN  FLt(nD, QUAD_PARALLEL_EPS) /\ FLt(FNeg(nD), QUAD_PARALLEL_EPS)

\* the ray meets the plane of the quad, at a parameter inside the range
MeetsPlaneInRange ==
    /\ ~NearParallel
    /\ FLe(call.t_min, call.hit_t)
    /\ FLe(call.hit_t, call.t_max)

HalfOpenUnit(x) == x.n >= 0 /\ x.n < x.d

\* C10: a plane intersection with planar coordinates (alpha,beta) is
\* accepted exactly when 0 <= alpha < 1 and 0 <= beta < 1; a ray through
\* the corner q hits, a ray through q+u+v does not.
C10_HalfOpen ==
    QuadDone /\ MeetsPlaneInRange =>
        /\ IsSome(call.out) <=> HalfOpenUnit(call.alpha) /\ HalfOpenUnit(call.beta)
        /\ IsSome(call.out) =>
             /\ Unwrap(call.out).u = call.alpha
             /\ Unwrap(call.out).v = call.beta
             /\ Unwrap(call.out).t = call.hit_t
        /\ call.alpha = R(0) /\ call.beta = R(0) => IsSome(call.out)
        /\ call.alpha = R(1) /\ call.beta = R(1) => call.out = None

\* a ray through the opposite corner q+u+v of the tilted quad is rejected
C10_Witness ==
    /\ QuadDone
    /\ MeetsPlaneInRange
    /\ call.alpha = R(1)
    /\ call.beta = R(1)
    /\ call.self.u = IntPoint(0, 3, 4)
    /\ call.out = None

\* C11: Quad::hit returns no-hit, without dividing, when the ray is
\* parallel to the plane (|n.D| < 1e-8), and no-hit when the plane
\* parameter t is outside the closed range [t_min, t_max]; t equal to t_min
\* or to t_max is accepted.
C11_ParallelAndRange ==
    QuadDone =>
        /\ NearParallel => call.out = None /\ ~call.divided
        /\ ~NearParallel => call.divided
        /\ ~NearParallel /\ (FLt(call.hit_t, call.t_min) \/ FGt(call.hit_t, call.t_max))
             => call.out = None
        /\ /\ ~NearParallel
           /\ call.hit_t = call.t_min \/ call.hit_t = call.t_max
           /\ HalfOpenUnit(call.alpha) /\ HalfOpenUnit(call.beta)
           => /\ IsSome(call.out)
              /\ Unwrap(call.out).t = call.hit_t

\* a grazing ray aimed at the middle of the quad, inside the range, is
\* refused without a division
C11_Witness ==
    /\ QuadDone
    /\ NearParallel
    /\ dot(cross(call.self.u, call.self.v), call.ray.direction) # R(0)
    /\ call.alpha = Norm(1, 2) /\ call.beta = Norm(1, 2)
    /\ FLe(call.t_min, call.hit_t) /\ FLe(call.hit_t, call.t_max)
    /\ call.out = None
    /\ ~call.divided

\* a plane parameter equal to t_max is accepted
C11_WitnessAtTMax ==
    /\ QuadDone
    /\ ~NearParallel
    /\ call.hit_t = call.t_max
    /\ IsSome(call.out)

(***************************************************************************)
(* Properties of Translate::hit and RotateY::hit                           *)
(***************************************************************************)
TranslateDone == call.op = "Translate::hit" /\ call.done

RotateYDone == call.op = "RotateY::hit" /\ call.done

\* C12: Translate(shape, offset).hit(ray) returns a hit exactly when
\* shape.hit does on the ray with its origin shifted by -offset; the hit
\* point returned is the inner hit point plus offset, subtracting offset
\* from it reproduces the inner hit point, and t, normal, front_face, u, v
\* and material are those of the inner hit.
C12_TranslateRoundTrip ==
    TranslateDone =>
        \A inner \in {InnerHit(call.self, call.ray, call.t_min, call.t_max)} :
            /\ IsSome(call.out) <=> IsSome(inner)
            /\ IsSome(call.out) /\ IsSome(inner) =>
                 /\ Unwrap(call.out).p = VAddRounded(Unwrap(inner).p, call.self.offset)
                 /\ VSubRounded(Unwrap(call.out).p, call.self.offset) = Unwrap(inner).p
                 /\ Unwrap(call.out).t = Unwrap(inner).t
                 /\ Unwrap(call.out).normal = Unwrap(inner).normal
                 /\ Unwrap(call.out).front_face = Unwrap(inner).front_face
                 /\ Unwrap(call.out).u = Unwrap(inner).u
                 /\ Unwrap(call.out).v = Unwrap(inner).v
                 /\ Unwrap(call.out).material = Unwrap(inner).material

\* C13: RotateY(shape, 0 degrees) is the identity wrapper: for every ray
\* and range it returns a hit exactly when the wrapped shape does, with the
\* same hit point, normal and t, and its bounding box is the bounding box
\* of the wrapped shape.
C13_RotateYZeroIdentity ==
    RotateYDone /\ call.angle = 0 =>
        \A plain \in {Hittable_hit(call.self.object, call.ray, call.t_min, call.t_max)} :
            /\ IsSome(call.out) <=> IsSome(plain)
            /\ IsSome(call.out) /\ IsSome(plain) =>
                 /\ Unwrap(call.out).p = Unwrap(plain).p
                 /\ Unwrap(call.out).normal = Unwrap(plain).normal
                 /\ Unwrap(call.out).t = Unwrap(plain).t
            /\ call.self.bounds = Hittable_bounding_box(call.self.object)

\* a ray that turns under any other angle hits the sphere behind the
\* wrapper of angle 0
C13_Witness ==
    /\ RotateYDone
    /\ call.angle = 0
    /\ call.self.object.kind = "Sphere"
    /\ call.ray.direction[1] # R(0)
    /\ call.ray.direction[3] # R(0)
    /\ IsSome(call.out)
    /\ Unwrap(call.out).p[1] # R(0)

(***************************************************************************)
(* Properties of HittableList::hit                                         *)
(***************************************************************************)
\* the hit member i of the list returns on its own for the ray and range
\* of the call
OwnHit(i) ==
    Hittable_hit(list.hittables[i], call.ray, call.t_min, call.t_max)

\* C14: HittableList::hit returns the closest hit: the t of the hit it
\* returns is no larger than the t of the hit any member returns on its own
\* for the same ray and range, and it returns no-hit exactly when every
\* member returns no-hit, as the list with no members does.
C14_ListClosest ==
    BothAnswered =>
        /\ \A i \in 1..Len(list.hittables) :
              \A own \in {OwnHit(i)} :
                 IsSome(own) =>
                    /\ IsSome(call.list_out)
                    /\ FLe(Unwrap(call.list_out).t, Unwrap(own).t)
        /\ call.list_out = None <=>
              \A i \in 1..Len(list.hittables) : OwnHit(i) = None
        /\ IsSome(call.list_out) =>
              \E i \in 1..Len(list.hittables) :
                 \E own \in {OwnHit(i)} :
                    IsSome(own) /\ Unwrap(own).t = Unwrap(call.list_out).t

\* the first member hits, and the list returns the closer hit of a later one
C14_Witness ==
    /\ BothAnswered
    /\ Len(list.hittables) >= 2
    /\ IsSome(OwnHit(1))
    /\ IsSome(call.list_out)
    /\ FLt(Unwrap(call.list_out).t, Unwrap(OwnHit(1)).t)

\* the list with no members answers no-hit
C14_WitnessEmpty ==
    /\ BothAnswered
    /\ Len(list.hittables) = 0
    /\ call.list_out = None

(***************************************************************************)
(* Properties of the normal of a hit                                       *)
(***************************************************************************)
SurfaceDone == call.op = "Hittable::hit" /\ call.done

\* the outward normals at the point p of the shapes of a surface that pass
\* through p
RECURSIVE Outwards(_, _, _)
Outwards(obj, p, time) ==
    CASE obj.kind = "Sphere" ->
            LET centre == Ray_at(obj.movement, time)
            IN  IF length_squared(VSub(p, centre)) = FMul(obj.radius, obj.radius)
                THEN {VDiv(VSub(p, centre), obj.radius)} ELSE {}
      [] obj.kind = "Quad" ->
            LET n == unit_vector(cross(obj.u, obj.v))
            IN  IF dot(n, VSub(p, obj.q)) = R(0) THEN {n} ELSE {}
      [] obj.kind = "Cube" ->
            UNION {Outwards(obj.sides.hittables[i], p, time) :
                      i \in 1..Len(obj.sides.hittables)}
      [] obj.kind \in {"HittableList", "BvhTree"} ->
            UNION {Outwards(obj.hittables[i], p, time) : i \in 1..Len(obj.hittables)}
      [] obj.kind = "Translate" ->
            Outwards(obj.object, VSub(p, obj.offset), time)
      [] obj.kind = "RotateY" ->
            {RotateY_back(obj, n) :
                n \in Outwards(obj.object,
                               RotateY_rotated_r(obj, Ray_new(p, p, time)).origin, time)}

\* C15: every hit a surface returns for a ray r has its normal against r,
\* dot(r.direction, hit.normal) <= 0, and front_face is true exactly when
\* the dot product of r.direction with the outward normal of the shape is
\* negative.
C15_NormalAgainstRay ==
    SurfaceDone /\ IsSome(call.out) =>
        /\ FLe(dot(call.ray.direction, Unwrap(call.out).normal), R(0))
        /\ \E n \in Outwards(call.self, Unwrap(call.out).p, call.ray.time) :
              /\ Unwrap(call.out).normal \in {n, VNeg(n)}
              /\ Unwrap(call.out).front_face <=> FLt(dot(call.ray.direction, n), R(0))

\* a quarter turn around a sphere that is hit from the inside
C15_Witness ==
    /\ SurfaceDone
    /\ call.self.kind = "RotateY"
    /\ call.self.object.kind = "Sphere"
    /\ IsSome(call.out)
    /\ ~Unwrap(call.out).front_face
    /\ FLt(dot(call.ray.direction, Unwrap(call.out).normal), R(0))

\* the tree returns a hit on the front of a shape
C15_WitnessTree ==
    /\ SurfaceDone
    /\ call.self.kind = "BvhTree"
    /\ IsSome(call.out)
    /\ Unwrap(call.out).front_face

(***************************************************************************)
(* Properties of the node array                                            *)
(***************************************************************************)
LeafSlots == {i \in 1..Len(nodes) : nodes[i].slab = "Leaf"}

NodeSlots == {i \in 1..Len(nodes) : nodes[i].slab = "Node"}

\* C16: every BvhTree::add rebuilds the whole tree: after n >= 1 calls of
\* add the node array has exactly 2n-1 slots, n of them Leaves and n-1 of
\* them Nodes, and the shape_index values of the Leaves are 0..n-1, each
\* occurring once.
C16_TreeShape ==
    Len(hittables) >= 1 =>
        /\ Len(nodes) = 2 * Len(hittables) - 1
        /\ Cardinality(LeafSlots) = Len(hittables)
        /\ Cardinality(NodeSlots) = Len(hittables) - 1
        /\ \A i \in LeafSlots : nodes[i].shape_index \in 0..(Len(hittables) - 1)
        /\ \A k \in 0..(Len(hittables) - 1) :
              Cardinality({i \in LeafSlots : nodes[i].shape_index = k}) = 1

\* a tree over three shapes, just rebuilt by add
C16_Witness ==
    /\ call.op = "add"
    /\ Len(hittables) = 3
    /\ Len(nodes) = 5
    /\ Cardinality(LeafSlots) = 3

(***************************************************************************)
(* Properties of concurrent queries                                        *)
(***************************************************************************)
\* what the query of worker i returns when it runs alone on the built tree
AloneResult(i) ==
    BvhTree_hit(RenderWorld.hittables, RenderWorld.nodes, call.workers[i].ray,
                RENDER_T_MIN, INFINITY).value

\* C17: hit queries are read-only: any number of them running concurrently
\* on one built tree, in any interleaving, leave the shapes, the node array
\* and the bounding boxes of the tree unchanged, and each query returns the
\* result it returns when run alone.
C17_QueriesReadOnly ==
    [][/\ hittables' = hittables
       /\ nodes' = nodes
       /\ bounds' = bounds
       /\ \A i \in 1..MaxWorkers :
             call'.workers[i].done => call'.workers[i].result = AloneResult(i)]_vars

\* a worker has its answer, a hit, while another is two calls deep in the tree
C17_Witness ==
    /\ call.op = "render"
    /\ \E i, j \in 1..MaxWorkers :
          /\ call.workers[i].done
          /\ IsSome(call.workers[i].result)
          /\ ~call.workers[j].done
          /\ Len(call.workers[j].stack) >= 2
          /\ call.workers[j].ray # call.workers[i].ray

(***************************************************************************)
(* Properties of a Node whose two children have answered                   *)
(***************************************************************************)
\* worker i is at a Node whose left child has answered and whose right
\* child is answering
BothChildrenBack(i) ==
    /\ call.op = "render"
    /\ IsSome(call.workers[i].ret)
    /\ Len(call.workers[i].stack) > 0
    /\ call.workers[i].stack[Len(call.workers[i].stack)].stage = "right"

LeftHit(i) == call.workers[i].stack[Len(call.workers[i].stack)].left_hit

RightHit(i) == Unwrap(call.workers[i].ret)

\* C18: at a Node whose box is hit, traversal returns the child hit with
\* the strictly smaller t; when both children hit with equal t it returns
\* the hit of the right child; when only one child hits it returns that
\* hit; when neither hits it returns no-hit.
C18_CloserChild ==
    [][\A i \in 1..MaxWorkers :
          BothChildrenBack(i) /\ call'.workers[i] # call.workers[i] =>
             /\ IsSome(call'.workers[i].ret)
             /\ IsSome(LeftHit(i)) /\ IsSome(RightHit(i)) =>
                  /\ FLt(Unwrap(LeftHit(i)).t, Unwrap(RightHit(i)).t)
                        => Unwrap(call'.workers[i].ret) = LeftHit(i)
                  /\ FLt(Unwrap(RightHit(i)).t, Unwrap(LeftHit(i)).t)
                        => Unwrap(call'.workers[i].ret) = RightHit(i)
                  /\ Unwrap(RightHit(i)).t = Unwrap(LeftHit(i)).t
                        => Unwrap(call'.workers[i].ret) = RightHit(i)
             /\ IsSome(LeftHit(i)) /\ ~IsSome(RightHit(i)) =>
                  Unwrap(call'.workers[i].ret) = LeftHit(i)
             /\ ~IsSome(LeftHit(i)) /\ IsSome(RightHit(i)) =>
                  Unwrap(call'.workers[i].ret) = RightHit(i)
             /\ ~IsSome(LeftHit(i)) /\ ~IsSome(RightHit(i)) =>
                  Unwrap(call'.workers[i].ret) = None]_vars

\* the right child of the root is a Node whose two children have hit
\* different shapes at the same t, and it has returned the right child's hit
C18_Witness ==
    /\ call.op = "render"
    /\ \E i \in 1..MaxWorkers :
          LET w  == call.workers[i]
              f  == w.stack[1]
              nd == nodes[nodes[1].right_index + 1]
          IN  /\ Len(w.stack) = 1
              /\ f.stage = "right"
              /\ IsSome(w.ret)
              /\ nd.slab = "Node"
              /\ \E intersection \in {intersects(nd.bounds, w.ray,
                                                 f.child_tmin, f.child_tmax)} :
                    /\ IsSome(intersection)
                    /\ \E left_hit \in {traverse(nodes, nd.left_index, w.ray,
                                                  Unwrap(intersection).tmin,
                                                  Unwrap(intersection).tmax,
                                                  hittables)},
                          right_hit \in {traverse(nodes, nd.right_index, w.ray,
                                                   Unwrap(intersection).tmin,
                                                   Unwrap(intersection).tmax,
                                                   hittables)} :
                          /\ IsSome(left_hit) /\ IsSome(right_hit)
                          /\ Unwrap(left_hit).t = Unwrap(right_hit).t
                          /\ left_hit # right_hit
                          /\ Unwrap(w.ret) = right_hit

(***************************************************************************)
(* Properties of longest_axis                                              *)
(***************************************************************************)
LongestAxisDone == call.op = "longest_axis" /\ call.done

\* the axes of the box whose length is maximal
MaximalAxes(self) ==
    {i \in 0..2 : \A j \in 0..2 : FLe(axis_length(self, j), axis_length(self, i))}

\* Least(S) and Greatest(S) of a non-empty set of axis indices
LeastAxis(S) == CHOOSE i \in S : \A j \in S : i <= j

GreatestAxis(S) == CHOOSE i \in S : \A j \in S : j <= i

C19_WitnessNoTie ==
    /\ LongestAxisDone
    /\ MaximalAxes(call.self) = {0}
    /\ call.out = 0

(***************************************************************************)
(* Properties of the layout of a built tree                                *)
(***************************************************************************)
\* the positions (from 0) reached from position p by following left_index
\* and right_index at most fuel times
RECURSIVE Subtree(_, _)
Subtree(p, fuel) ==
    IF fuel = 0 \/ p \notin 0..(Len(nodes) - 1) THEN {}
    ELSE IF nodes[p + 1].slab = "Leaf" THEN {p}
    ELSE {p} \cup Subtree(nodes[p + 1].left_index, fuel - 1)
             \cup Subtree(nodes[p + 1].right_index, fuel - 1)

\* the number of shapes (Leaves) in the subtree at position p
ShapesUnder(p) ==
    Cardinality({q \in Subtree(p, Len(nodes)) : nodes[q + 1].slab = "Leaf"})

\* C20: child offsets follow the subtree-size formula: in every built tree
\* a Node at array position p over k >= 2 shapes has left_index = p+1 and
\* right_index = p+1+(2L-1) with L = floor(k/2) shapes in the left subtree
\* and k-L in the right; both indices are inside the array and the subtree
\* occupies exactly the contiguous positions p .. p+2k-2.
C20_ChildOffsets ==
    \A p \in 0..(Len(nodes) - 1) :
        nodes[p + 1].slab = "Node" =>
            \A k \in {ShapesUnder(p)} :
               /\ k >= 2
               /\ nodes[p + 1].left_index = p + 1
               /\ nodes[p + 1].right_index = p + 1 + (2 * (k \div 2) - 1)
               /\ ShapesUnder(nodes[p + 1].left_index) = k \div 2
               /\ ShapesUnder(nodes[p + 1].right_index) = k - (k \div 2)
               /\ nodes[p + 1].left_index \in 0..(Len(nodes) - 1)
               /\ nodes[p + 1].right_index \in 0..(Len(nodes) - 1)
               /\ Subtree(p, Len(nodes)) = p..(p + 2 * k - 2)

\* a tree over five shapes: the root has two shapes on its left, so its
\* right child is a Node over three shapes three slots further on
C20_Witness ==
    /\ call.op = "add"
    /\ Len(hittables) = 5
    /\ nodes[1].slab = "Node"
    /\ nodes[1].right_index = 4
    /\ nodes[5].slab = "Node"
    /\ ShapesUnder(4) = 3
    /\ ShapesUnder(1) = 2

(***************************************************************************)
(* Properties of the boxes of a built tree                                 *)
(***************************************************************************)
\* the box of the slot at position p: a Node's bounds, or the bounding box
\* of the shape of a Leaf
SlotBounds(p) ==
    IF nodes[p + 1].slab = "Node" THEN nodes[p + 1].bounds
    ELSE Hittable_bounding_box(hittables[nodes[p + 1].shape_index + 1])

\* box B lies inside box A
BoxInside(A, B) == Contains(A, B.lower) /\ Contains(A, B.upper)

\* C21: in every built tree each Node's bounds equals the merge of its two
\* children's bounds (a Leaf's bounds being its shape's bounding box), hence
\* it contains the bounding box of every shape referenced by a Leaf in its
\* subtree.
C21_NodeBoundsMerge ==
    \A p \in 0..(Len(nodes) - 1) :
        nodes[p + 1].slab = "Node" =>
            /\ nodes[p + 1].bounds =
                  box_between(SlotBounds(nodes[p + 1].left_index),
                              SlotBounds(nodes[p + 1].right_index))
            /\ \A q \in Subtree(p, Len(nodes)) :
                  nodes[q + 1].slab = "Leaf" =>
                     BoxInside(nodes[p + 1].bounds, SlotBounds(q))

\* a tree over five shapes whose root has a Node as its right child, with
\* a box smaller than the root's
C21_Witness ==
    /\ call.op = "add"
    /\ Len(hittables) = 5
    /\ nodes[1].slab = "Node"
    /\ nodes[nodes[1].right_index + 1].slab = "Node"
    /\ nodes[nodes[1].right_index + 1].bounds # nodes[1].bounds
    /\ SlotBounds(nodes[1].left_index) # nodes[1].bounds

(***************************************************************************)
(* Properties of the order of the shapes of a built tree                   *)
(***************************************************************************)
\* the extent of shape number i (from 1) along the longest axis of the
\* merged box of all shapes
SortKey(i) ==
    axis_length(Hittable_bounding_box(hittables[i]),
                longest_axis(boxes_merged(hittables, 1, BoundingBox_empty)))

\* C22: build ordering: after each build the shape list is ordered by
\* nondecreasing extent of each shape's own bounding box along the longest
\* axis of the merged box of all shapes, and the Leaves read in array order
\* reference shape indices 0,1,..,n-1 in increasing order, so the recursive
\* midpoint split partitions that sorted order.
C22_BuildOrdering ==
    Len(hittables) >= 1 =>
        /\ \A i, j \in 1..Len(hittables) : i < j => FLe(SortKey(i), SortKey(j))
        /\ \A i, j \in LeafSlots :
              i < j => nodes[i].shape_index < nodes[j].shape_index
        /\ {nodes[i].shape_index : i \in LeafSlots} = 0..(Len(hittables) - 1)

\* the shape just added has been moved in front of a shape of greater
\* extent that was added before it
C22_Witness ==
    /\ call.op = "add"
    /\ Len(hittables) >= 3
    /\ hittables[Len(hittables)] # call.object
    /\ hittables[1] = call.object
    /\ FLt(SortKey(1), SortKey(Len(hittables)))

(***************************************************************************)
(* Properties of the steps of a traversal                                  *)
(***************************************************************************)
TopFrame(i) == call.workers[i].stack[Len(call.workers[i].stack)]

\* worker i is about to run the call on top of its stack, at a Node
AtNode(i) ==
    /\ call.op = "render"
    /\ ~call.workers[i].done
    /\ ~IsSome(call.workers[i].ret)
    /\ nodes[TopFrame(i).node_index + 1].slab = "Node"

\* worker i has the answer of the left child of the Node on top of its stack
LeftChildBack(i) ==
    /\ call.op = "render"
    /\ IsSome(call.workers[i].ret)
    /\ Len(call.workers[i].stack) > 0
    /\ TopFrame(i).stage = "left"

\* the box test of the Node on top of the stack of worker i, on the range
\* the Node received
NodeBoxTest(i) ==
    intersects(nodes[TopFrame(i).node_index + 1].bounds, call.workers[i].ray,
               TopFrame(i).t_min, TopFrame(i).t_max)

\* the stack of worker i after the step is its stack before with one more
\* call on top: traverse of slot child on the range of the box test
CallsChild(i, child, stage) ==
    \A depth \in {Len(call.workers[i].stack)} :
      \A intersection \in {NodeBoxTest(i)} :
        /\ Len(call'.workers[i].stack) = depth + 1
        /\ SubSeq(call'.workers[i].stack, 1, depth - 1)
              = SubSeq(call.workers[i].stack, 1, depth - 1)
        /\ call'.workers[i].stack[depth].node_index = TopFrame(i).node_index
        /\ call'.workers[i].stack[depth].stage = stage
        /\ call'.workers[i].stack[depth + 1].node_index = child
        /\ call'.workers[i].stack[depth + 1].stage = "enter"
        /\ call'.workers[i].stack[depth + 1].t_min = Unwrap(intersection).tmin
        /\ call'.workers[i].stack[depth + 1].t_max = Unwrap(intersection).tmax
        /\ ~IsSome(call'.workers[i].ret)

\* C23: traversal pruning: at a Node, if the ray misses the Node's bounds
\* within the current range the traversal returns no-hit and no shape in
\* that subtree is tested; otherwise both children are traversed, left
\* before right, each exactly once and each with the tightened [tmin,tmax]
\* returned by the box test rather than the range the Node received.
C23_TraversalPruning ==
    [][\A i \in 1..MaxWorkers :
          call'.workers[i] # call.workers[i] =>
             /\ AtNode(i) /\ ~IsSome(NodeBoxTest(i)) =>
                  /\ call'.workers[i].stack = Pop(call.workers[i].stack)
                  /\ call'.workers[i].ret = Some(None)
             /\ AtNode(i) /\ IsSome(NodeBoxTest(i)) =>
                  CallsChild(i, nodes[TopFrame(i).node_index + 1].left_index, "left")
             /\ LeftChildBack(i) =>
                  CallsChild(i, nodes[TopFrame(i).node_index + 1].right_index, "right")
             /\ BothChildrenBack(i) =>
                  call'.workers[i].stack = Pop(call.workers[i].stack)]_vars

\* the ray has met the box of the root and missed the box of the Node that
\* is the root's right child, which has returned no-hit
C23_Witness ==
    /\ call.op = "render"
    /\ \E i \in 1..MaxWorkers :
          /\ Len(call.workers[i].stack) = 1
          /\ TopFrame(i).stage = "right"
          /\ call.workers[i].ret = Some(None)
          /\ nodes[nodes[1].right_index + 1].slab = "Node"
          /\ ~IsSome(intersects(nodes[nodes[1].right_index + 1].bounds,
                                call.workers[i].ray,
                                TopFrame(i).child_tmin, TopFrame(i).child_tmax))

\* the right child of the root is about to run on a range tighter than the
\* range the root received
C23_WitnessTightened ==
    /\ call.op = "render"
    /\ \E i \in 1..MaxWorkers :
          /\ Len(call.workers[i].stack) = 2
          /\ call.workers[i].stack[1].stage = "right"
          /\ TopFrame(i).stage = "enter"
          /\ ~IsSome(call.workers[i].ret)
          /\ FLt(call.workers[i].stack[1].t_min, TopFrame(i).t_min)
          /\ FLt(TopFrame(i).t_max, call.workers[i].stack[1].t_max)

(***************************************************************************)
(* Properties of the length of a query                                     *)
(***************************************************************************)
\* the least e with 2^e >= n
CeilLog2(n) == CHOOSE e \in 0..n : Pow2(e) >= n /\ \A d \in 0..(e - 1) : Pow2(d) < n

ChildrenFurtherOn ==
    \A p \in 0..(Len(nodes) - 1) :
        nodes[p + 1].slab = "Node" =>
            nodes[p + 1].left_index > p /\ nodes[p + 1].right_index > p

EachSlotOnce ==
    call.op = "hit" =>
        /\ \A a, b \in 1..Len(call.visited) :
              a # b => call.visited[a] # call.visited[b]
        /\ Len(call.worker.stack) <= CeilLog2(Len(hittables)) + 1

\* C24: every tree query terminates: in every built tree a Node's
\* left_index and right_index are strictly greater than the Node's own
\* position, so the traversal visits each slot at most once, and because
\* each split is at the midpoint the recursion depth is at most
\* ceil(log2 n) + 1 for n shapes.
C24_QueryTerminates ==
    /\ [](ChildrenFurtherOn /\ EachSlotOnce)
    /\ (call.op = "hit") ~> (call.op = "hit" /\ call.worker.done)

\* a finished query of a tree over five shapes that has visited all nine
\* slots
C24_Witness ==
    /\ call.op = "hit"
    /\ call.worker.done
    /\ Len(hittables) = 5
    /\ Len(call.visited) = 9

\* a query of a tree over five shapes at recursion depth 4
C24_WitnessDepth ==
    /\ call.op = "hit"
    /\ Len(hittables) = 5
    /\ Len(call.worker.stack) = CeilLog2(5) + 1
    /\ Len(call.worker.stack) = 4

(***************************************************************************)
(* Properties of the Cube                                                  *)
(***************************************************************************)
CubeDone == call.op = "Cube::hit" /\ call.done

\* point p lies in the plane of the quad and passes its interior test
PassesInterior(quad, p) ==
    /\ dot(quad.normal, p) = quad.d
    /\ IsSome(is_interior(Quad_planar(quad, p)[1], Quad_planar(quad, p)[2]))

\* C25: the six Quads of a Cube form a closed box: for corners a and b
\* with min < max on every axis, every point on the surface of the box
\* between min and max (faces, edges and the eight vertices) passes the
\* interior test of at least one of the six Quads, so a ray through any
\* surface point hits the Cube.
C25_CubeClosed ==
    CubeDone =>
        /\ \E k \in 1..Len(call.self.sides.hittables) :
              PassesInterior(call.self.sides.hittables[k], call.point)
        /\ IsSome(call.out)

(***************************************************************************)
(* Properties of the slab test on an axis the ray does not move along      *)
(***************************************************************************)
\* tmin_out, tmax_out and whether intersects has returned, before the
\* iteration of the loop for axis ax
SlabBefore(ax) ==
    LET s0 == [tmin_out |-> call.t_min, tmax_out |-> call.t_max, ret |-> FALSE]
        s1 == slab_axis(call.self, call.ray, call.t_min, call.t_max, s0, 0)
        s2 == slab_axis(call.self, call.ray, call.t_min, call.t_max, s1, 1)
    IN  CASE ax = 0 -> s0 [] ax = 1 -> s1 [] ax = 2 -> s2

\* and after it
SlabAfter(ax) ==
    slab_axis(call.self, call.ray, call.t_min, call.t_max, SlabBefore(ax), ax)

\* the loop reaches axis ax with a running interval that is not empty, and
\* the ray does not move along the axis
ZeroComponent(ax) ==
    /\ axis(call.ray.direction, ax) = R(0)
    /\ ~SlabBefore(ax).ret
    /\ FLt(SlabBefore(ax).tmin_out, SlabBefore(ax).tmax_out)

AxisLeavesInterval(ax) ==
    /\ SlabAfter(ax).tmin_out = SlabBefore(ax).tmin_out
    /\ SlabAfter(ax).tmax_out = SlabBefore(ax).tmax_out
    /\ ~SlabAfter(ax).ret

StrictlyInSlab(ax) ==
    /\ FLt(axis(call.self.lower, ax), axis(call.ray.origin, ax))
    /\ FLt(axis(call.ray.origin, ax), axis(call.self.upper, ax))

StrictlyOffSlab(ax) ==
    /\ FLe(axis(call.self.lower, ax), axis(call.self.upper, ax))
    /\ \/ FLt(axis(call.ray.origin, ax), axis(call.self.lower, ax))
       \/ FLt(axis(call.self.upper, ax), axis(call.ray.origin, ax))

SignedInfinity(x) == x = INFINITY \/ x = NEG_INFINITY

\* C26 as stated: zero direction component in the slab test: when the ray's
\* direction component on an axis is exactly 0, the reciprocal is a signed
\* infinity, the test does not fail with an error, and that axis never
\* excludes the ray (it neither shrinks the running interval nor causes a
\* no-hit), whatever the ray origin's coordinate on that axis.
C26_ZeroNeverExcludes ==
    SlabDone =>
        \A ax \in 0..2 :
            ZeroComponent(ax) =>
                /\ SignedInfinity(FDiv(R(1), axis(call.ray.direction, ax)))
                /\ AxisLeavesInterval(ax)

\* C26 amended: when the direction component on an axis is exactly 0 the
\* reciprocal is a signed infinity; if the origin's coordinate on that axis
\* is strictly between the box's lower and upper the axis neither shrinks
\* the running interval nor causes a no-hit; if it is strictly below lower
\* or strictly above upper (lower <= upper) the test returns no-hit.
C26_ZeroExcludesOutside ==
    SlabDone =>
        \A ax \in 0..2 :
            ZeroComponent(ax) =>
                /\ SignedInfinity(FDiv(R(1), axis(call.ray.direction, ax)))
                /\ StrictlyInSlab(ax) => AxisLeavesInterval(ax)
                /\ StrictlyOffSlab(ax) => SlabAfter(ax).ret /\ call.out = None

\* the ray does not move along the last axis and starts off the slab of
\* that axis, the two other axes have let it pass, and the test returns
\* no-hit
C26_Witness ==
    /\ SlabDone
    /\ ZeroComponent(2)
    /\ StrictlyOffSlab(2)
    /\ call.out = None

\* the ray does not move along the first axis and starts inside its slab;
\* the test returns the interval of the two other axes
C26_WitnessInside ==
    /\ SlabDone
    /\ ZeroComponent(0)
    /\ StrictlyInSlab(0)
    /\ IsSome(call.out)
    /\ FLt(call.t_min, Unwrap(call.out).tmin)

(***************************************************************************)
(* Properties of the random source of the workers                          *)
(***************************************************************************)
\* worker j is inside lock() while worker i holds the guard
Contend(i, j) ==
    /\ call.rng_src.locked_by = i
    /\ call.workers[j].pc \in {"sample_square.lock", "ray_time.lock"}

\* the values of worker i follow one another in the stream they come from
OwnStream(i) ==
    \A k \in 1..(Len(call.workers[i].values) - 1) :
        call.workers[i].values[k + 1] = call.workers[i].values[k] + 1

\* C27: each concurrent render worker draws its pixel-jitter and ray-time
\* samples from its own independent random stream: no two workers ever
\* contend for one shared exclusively locked random source while generating
\* rays.
C27_OwnRandomStream ==
    call.op = "make_ray" =>
        /\ \A i, j \in 1..MaxWorkers : i # j => ~Contend(i, j)
        /\ \A i \in 1..MaxWorkers : OwnStream(i)

(***************************************************************************)
(* Properties of the parent links of a built tree                          *)
(***************************************************************************)
\* the positions of the Nodes that have position p as a child
ParentsOf(p) ==
    {q \in 0..(Len(nodes) - 1) :
        /\ nodes[q + 1].slab = "Node"
        /\ nodes[q + 1].left_index = p \/ nodes[q + 1].right_index = p}

\* C28: parent links: in every built tree the parent_index of each slot
\* other than the root is the array position of the Node whose left_index
\* or right_index equals that slot's position (the root at position 0
\* refers to itself).
C28_ParentLinks ==
    Len(nodes) >= 1 =>
        /\ nodes[1].parent_index = 0
        /\ \A p \in 1..(Len(nodes) - 1) :
              nodes[p + 1].parent_index \in ParentsOf(p)

(***************************************************************************)
(* Properties of the range of a query                                      *)
(***************************************************************************)
\* every Node of the subtree at node_index that the ray reaches hands its
\* children a range inside the range it received
RECURSIVE SubRanges(_, _, _, _, _)
SubRanges(nds, node_index, r, t_min, t_max) ==
    nds[node_index + 1].slab = "Node" =>
        \A intersection \in {intersects(nds[node_index + 1].bounds, r, t_min, t_max)} :
            IsSome(intersection) =>
                /\ FLe(t_min, Unwrap(intersection).tmin)
                /\ FLe(Unwrap(intersection).tmax, t_max)
                /\ SubRanges(nds, nds[node_index + 1].left_index, r,
                             Unwrap(intersection).tmin, Unwrap(intersection).tmax)
                /\ SubRanges(nds, nds[node_index + 1].right_index, r,
                             Unwrap(intersection).tmin, Unwrap(intersection).tmax)

\* the materials of the Spheres among the surfaces
SphereMaterials == {"m1", "m2"}

\* C29: every hit respects the query range: for every surface, ray and
\* range with tMin <= tMax, a returned hit has tMin <= t <= tMax (strictly
\* inside for a Sphere), and this holds for hits returned through the flat
\* list, Cube, Translate, RotateY and through any depth of tree Nodes,
\* whose children only ever receive sub-ranges of the range the root
\* received.
C29_HitInRange ==
    SurfaceDone /\ FLe(call.t_min, call.t_max) =>
        /\ IsSome(call.out) =>
              /\ FLe(call.t_min, Unwrap(call.out).t)
              /\ FLe(Unwrap(call.out).t, call.t_max)
              /\ Unwrap(call.out).material \in SphereMaterials =>
                    /\ FLt(call.t_min, Unwrap(call.out).t)
                    /\ FLt(Unwrap(call.out).t, call.t_max)
        /\ call.self.kind = "BvhTree" =>
              SubRanges(call.self.nodes, 0, call.ray, call.t_min, call.t_max)

\* a hit through a wrapper, the list or the tree, with t at the lower end
\* of a finite range
C29_Witness ==
    /\ SurfaceDone
    /\ call.self.kind \in {"Translate", "RotateY", "HittableList", "BvhTree", "Cube"}
    /\ call.t_max # INFINITY
    /\ IsSome(call.out)
    /\ Unwrap(call.out).t = call.t_min

\* the tree returns a hit on a finite range that the box of the root
\* tightens at its upper end
C29_WitnessTree ==
    /\ SurfaceDone
    /\ call.self.kind = "BvhTree"
    /\ call.t_max # INFINITY
    /\ IsSome(call.out)
    /\ \E intersection \in {intersects(call.self.nodes[1].bounds, call.ray,
                                        call.t_min, call.t_max)} :
          /\ IsSome(intersection)
          /\ FLt(Unwrap(intersection).tmax, call.t_max)

\* the ray meets a Sphere exactly at the lower end of the range, and that
\* root is not returned
C29_WitnessSphere ==
    /\ SurfaceDone
    /\ call.self.kind = "Sphere"
    /\ call.t_min = R(1)
    /\ \E off \in {VSub(Ray_at(call.ray, R(1)), call.self.movement.origin)} :
          dot(off, off) = FMul(call.self.radius, call.self.radius)
    /\ ~(IsSome(call.out) /\ Unwrap(call.out).t = R(1))

(***************************************************************************)
(* Properties of the bounding boxes of the containers                      *)
(***************************************************************************)
\* box is the merge of the bounding boxes of the shapes hs: on every axis
\* its lower is the least lower and its upper the greatest upper of them,
\* and it is the empty box when there are none
MergeOfAll(box, hs) ==
    IF hs = <<>> THEN box = BoundingBox_empty
    ELSE \A a \in 1..3 :
           /\ \A k \in 1..Len(hs) :
                 /\ FLe(box.lower[a], Hittable_bounding_box(hs[k]).lower[a])
                 /\ FLe(Hittable_bounding_box(hs[k]).upper[a], box.upper[a])
           /\ \E k \in 1..Len(hs) :
                 box.lower[a] = Hittable_bounding_box(hs[k]).lower[a]
           /\ \E k \in 1..Len(hs) :
                 box.upper[a] = Hittable_bounding_box(hs[k]).upper[a]

\* C30: container bounds track membership: after any sequence of add calls
\* the bounding box of a HittableList and of a BvhTree equals the merge of
\* the bounding boxes of all shapes added so far (the empty box before the
\* first add), and for a tree with n >= 2 shapes the root Node's bounds
\* equals the tree's bounding box.
C30_ContainerBounds ==
    /\ MergeOfAll(bounds, hittables)
    /\ MergeOfAll(list.bounds, list.hittables)
    /\ Len(hittables) >= 2 =>
          nodes[1].slab = "Node" /\ nodes[1].bounds = bounds

\* three shapes have been added to the tree and to the list, and no one
\* shape's box is the box of the container
C30_Witness ==
    /\ call = Idle
    /\ Len(hittables) = 3
    /\ Len(list.hittables) = 3
    /\ list.bounds = bounds
    /\ \A k \in 1..3 : Hittable_bounding_box(hittables[k]) # bounds
    /\ Hittable_bounding_box(list.hittables[3]) # list.bounds

====
